---- MODULE Spec2Model ----
(***************************************************************************)
(* Model of the rule matching and action dispatch core of the auto-heal    *)
(* service: the short term memory of executed actions, the predicate       *)
(* matcher (checkRule / checkMap) and the alerts worker (startHealing /    *)
(* runRule).                                                               *)
(*                                                                         *)
(* Strings are sequences of tokens: a token is a one character string, or  *)
(* one of the multi character tokens of the pattern and template           *)
(* languages (".*", "(", "{{$labels.service}}", ...).                      *)
(***************************************************************************)
EXTENDS Integers, Sequences, FiniteSets, TLC

VARIABLES
    now,        \* the monotonic clock read by time.Now()
    duration,   \* ShortTermMemory.duration
    cells,      \* ShortTermMemory.cells
    crashed,    \* a panic has unwound the calling goroutine
    lastOp,     \* the most recent call of the memory and what it returned
    lastAdd,    \* value -> its most recent Add: the time, and whether it refreshed
    rulesCache, \* Healer.rulesCache: rule name -> rule, or NoRule
    rulesQueue, \* Healer.rulesQueue: the rule changes waiting for the rules worker
    curAlert,   \* the alert the alerts worker is healing
    activated,  \* the activated rules startHealing still has to run
    requested,  \* requested counter: <<type, rule, alert name>> -> count
    lastRun,    \* what the most recent runRule did
    lastChange, \* the most recent rule change processed, and the cache before it
    lastPick,   \* the alert the alerts worker took last, the calls it made on
                \* the queue for it and, between them, how processing it ended
    chkRule,    \* checkRule: the rule under test
    chkAlert,   \* checkRule: the alert under test
    chkOut,     \* checkRule: its result, or NotChecked
    ranging,    \* rulesCache.Range of the alerts worker: the cache when it
                \* started, the names it has yet to visit and the rules it
                \* handed to checkRule
    activeJobs, \* Runner.activeJobs: job identifier -> the rule that launched it
    actionsLaunched, \* launched gauge: <<type, template, rule, status>> -> value
    jobsLaunched,    \* the identifier of the job the AWX server created last
    pass,       \* the pass of the active jobs worker: where its Range is, the
                \* finished jobs it collected and what it was answered
    launchLog,  \* how the most recent launch went, with the active jobs before
                \* it, and the jobs a status query has reported finished
    stopCh,     \* the stop channel handed to Run is closed
    runPc,      \* the statement Healer.Run executes next
    queues,     \* the rules and alerts queues: items waiting, shut down or not
    workers,    \* where wait.Until is with each of the three worker functions
    tplIn,      \* Process: the object its argument points to
    tplData,    \* Process: the alert the templates are executed with
    tplOut,     \* Process: the object afterwards and what was returned
    mutex,      \* ShortTermMemory.mutex: the caller that holds it, or 0
    config      \* Config.rules: the rules of the configuration loaded last

memVars == <<now, duration, cells, crashed, lastOp, lastAdd>>
healerVars == <<rulesCache, rulesQueue, curAlert, activated, requested, lastRun,
                lastChange, lastPick>>
matchVars == <<chkRule, chkAlert, chkOut, ranging>>
pollerVars == <<activeJobs, actionsLaunched, jobsLaunched, pass, launchLog>>
lifeVars == <<stopCh, runPc, queues, workers>>
templateVars == <<tplIn, tplData, tplOut>>
lockVars == <<mutex>>
configVars == <<config>>
otherVars == <<pollerVars, lifeVars, templateVars, lockVars, configVars>>
vars == <<now, duration, cells, crashed, lastOp, lastAdd, rulesCache, rulesQueue,
          curAlert, activated, requested, lastRun, lastChange, lastPick,
          chkRule, chkAlert, chkOut, ranging, activeJobs, actionsLaunched, jobsLaunched,
          pass, launchLog, stopCh, runPc, queues, workers, tplIn, tplData, tplOut,
          mutex, config>>

----------------------------------------------------------------------------
(* Bounds of the model.                                                    *)

MaxTime == 3
MaxDuration == 2
MaxRequests == 4
MaxJobs == 2
MaxQueued == 2
MaxFields == 2
MaxChanges == 4

Never == 0 - 1

Range(f) == {f[x] : x \in DOMAIN f}

EmptyMap == [k \in {} |-> <<>>]

MapsOver(keys, vals) == UNION {[d -> vals] : d \in SUBSET keys}

(* The orders in which a Go map with key set S can be iterated. *)
Orders(S) == {o \in [1..Cardinality(S) -> S] : Range(o) = S}

----------------------------------------------------------------------------
(* Predicate matcher.                                                      *)

(* Pattern p matches a prefix of the text s. *)
RECURSIVE MatchHere(_, _)
MatchHere(p, s) ==
    IF p = <<>> THEN TRUE
    ELSE IF Head(p) = ".*"
         THEN \E k \in 0..Len(s) : MatchHere(Tail(p), SubSeq(s, k + 1, Len(s)))
    ELSE IF s = <<>> THEN FALSE
    ELSE IF Head(p) = "." \/ Head(p) = Head(s)
         THEN MatchHere(Tail(p), Tail(s))
    ELSE FALSE

(* regexp.MatchString: compiles the pattern (an unbalanced "(" does not    *)
(* compile) and reports whether the text contains a match of it.           *)
MatchString(pattern, value) ==
    IF "(" \in Range(pattern)
    THEN [matches |-> FALSE, err |-> TRUE]
    ELSE [matches |-> \E k \in 0..Len(value) :
                         MatchHere(pattern, SubSeq(value, k + 1, Len(value))),
          err |-> FALSE]

(* Mutant of the loop of checkMap: one matching key is enough. *)
RECURSIVE checkMapLoopAny(_, _, _)
checkMapLoopAny(values, patterns, order) ==
    IF order = <<>> THEN [result |-> FALSE, err |-> FALSE]
    ELSE LET key == Head(order)
             m == IF key \in DOMAIN values
                  THEN MatchString(patterns[key], values[key])
                  ELSE [matches |-> FALSE, err |-> FALSE]
         IN  IF m.matches THEN [result |-> TRUE, err |-> FALSE]
             ELSE checkMapLoopAny(values, patterns, Tail(order))

(* The for loop of checkMap over the keys of patterns, in the order given. *)
RECURSIVE checkMapLoop(_, _, _)
checkMapLoop(values, patterns, order) ==
    IF order = <<>> THEN [result |-> TRUE, err |-> FALSE]
    ELSE LET key == Head(order)
         IN  IF key \notin DOMAIN values
             THEN [result |-> FALSE, err |-> FALSE]
             ELSE LET m == MatchString(patterns[key], values[key])
                  IN  IF ~m.matches \/ m.err
                      THEN [result |-> FALSE, err |-> m.err]
                      ELSE checkMapLoop(values, patterns, Tail(order))

(* Mutant of checkMap: an alert without values never matches. *)
checkMapEmptyFirst(values, patterns, order) ==
    IF Cardinality(DOMAIN values) = 0
    THEN [result |-> FALSE, err |-> FALSE]
    ELSE checkMapLoop(values, patterns, order)

(* Mutant of checkMap: the alert must carry the keys of the rule and no   *)
(* others.                                                                 *)
checkMapExactKeys(values, patterns, order) ==
    IF DOMAIN values # DOMAIN patterns
    THEN [result |-> FALSE, err |-> FALSE]
    ELSE checkMapLoop(values, patterns, order)

checkMap(values, patterns, order) ==
    IF Cardinality(DOMAIN patterns) > 0
    THEN IF Cardinality(DOMAIN values) = 0
         THEN [result |-> FALSE, err |-> FALSE]
         ELSE checkMapLoop(values, patterns, order)
    ELSE [result |-> TRUE, err |-> FALSE]

checkRule(rule, alert, lorder, aorder) ==
    LET l == checkMap(alert.Labels, rule.Labels, lorder)
    IN  IF ~l.result \/ l.err
        THEN [matches |-> l.result, err |-> l.err]
        ELSE LET a == checkMap(alert.Annotations, rule.Annotations, aorder)
             IN  [matches |-> a.result, err |-> a.err]

(* Inputs of the matcher. *)
PatMy == <<"m", ".*">>
PatYour == <<"y", ".*">>
PatBad == <<"(">>
ValMy == <<"m", "v">>
ValUgly == <<"u">>
ValOhMy == <<"o", "m">>

MatchPatterns == {PatMy, PatYour, PatBad}
MatchValues == {ValMy, ValUgly, ValOhMy}

MatchRules ==
    [Labels : MapsOver({"mylabel", "yourlabel"}, MatchPatterns),
     Annotations : MapsOver({"myannotation"}, MatchPatterns)]

MatchAlerts ==
    [Labels : MapsOver({"mylabel", "yourlabel"}, MatchValues),
     Annotations : MapsOver({"myannotation"}, MatchValues)]

NotChecked == [done |-> FALSE, matches |-> FALSE, err |-> FALSE]

(* A call of checkRule, as the tests of the matcher make it. *)
CheckRule ==
    /\ ~chkOut.done
    /\ \E lorder \in Orders(DOMAIN chkRule.Labels),
          aorder \in Orders(DOMAIN chkRule.Annotations) :
          LET r == checkRule(chkRule, chkAlert, lorder, aorder)
          IN  chkOut' = [done |-> TRUE, matches |-> r.matches, err |-> r.err]
    /\ UNCHANGED <<chkRule, chkAlert, ranging>>
    /\ UNCHANGED memVars
    /\ UNCHANGED healerVars
    /\ UNCHANGED otherVars


----------------------------------------------------------------------------
(* Short term memory.                                                      *)
(*                                                                         *)
(* An item is a pointer: ref is its address and val the value it points    *)
(* to.  A cell is [item, stamp].                                           *)

AWXJobAction(template, extraVars) ==
    [kind |-> "AWXJobAction", Template |-> template, ExtraVars |-> extraVars]

Job(name, namespace) ==
    [kind |-> "Job", Name |-> name, Namespace |-> namespace]

NilValue == [kind |-> "nil"]
NilItem == [ref |-> 0, val |-> NilValue]
NilCell == [item |-> NilItem, stamp |-> Never]

(* reflect.DeepEqual of the values two pointers point to. *)
DeepEqualValue(a, b) ==
    /\ a.kind = b.kind
    /\ CASE a.kind = "AWXJobAction" ->
                a.Template = b.Template /\ a.ExtraVars = b.ExtraVars
         [] a.kind = "Job" ->
                a.Name = b.Name /\ a.Namespace = b.Namespace
         [] OTHER -> TRUE

(* Mutant of DeepEqual: pointer identity. *)
DeepEqualIdentity(x, y) == x.ref = y.ref

(* Mutant of DeepEqual: only the type of the action is compared. *)
DeepEqualKind(x, y) == x.val.kind = y.val.kind

(* reflect.DeepEqual of two pointers: the same address, or deeply equal    *)
(* values.                                                                 *)
DeepEqual(x, y) == x.ref = y.ref \/ DeepEqualValue(x.val, y.val)

(* The index of the first cell holding the item, 0 when there is none. *)
findMatchingCell(cs, item) ==
    IF \E i \in 1..Len(cs) : DeepEqual(item, cs[i].item)
    THEN CHOOSE i \in 1..Len(cs) :
             /\ DeepEqual(item, cs[i].item)
             /\ \A j \in 1..(i - 1) : ~DeepEqual(item, cs[j].item)
    ELSE 0

(* Mutant of Add: always appends a new cell. *)
AddAlways(cs, item, t) == Append(cs, [item |-> item, stamp |-> t])

Add(cs, item, t) ==
    LET i == findMatchingCell(cs, item)
    IN  IF i = 0
        THEN Append(cs, [item |-> item, stamp |-> t])
        ELSE [cs EXCEPT ![i].stamp = t]

(* The loop of purgeExpiredCells.  arr is the backing array of m.cells,    *)
(* which the range statement reads at index idx (0 based) up to the length *)
(* the slice had when the loop started; n is the current len(m.cells).     *)
(* A removal shifts arr[idx+1 .. n-1] one place down and leaves arr[n-1]   *)
(* as it was; when the removed cell is the last one it stays nil.          *)
RECURSIVE purgeLoop(_, _, _, _, _)
purgeLoop(arr, n, idx, t, d) ==
    IF idx >= Len(arr)
    THEN [cells |-> SubSeq(arr, 1, n), panic |-> FALSE]
    ELSE LET cell == arr[idx + 1]
         IN  IF cell = NilCell
             THEN [cells |-> SubSeq(arr, 1, n), panic |-> TRUE]
             ELSE IF t - cell.stamp >= d
             THEN IF idx >= n
                  THEN [cells |-> SubSeq(arr, 1, n), panic |-> TRUE]
                  ELSE LET shifted ==
                               [i \in 1..Len(arr) |->
                                   IF i >= idx + 1 /\ i <= n - 1 THEN arr[i + 1]
                                   ELSE IF i = idx + 1 THEN NilCell
                                   ELSE arr[i]]
                       IN  purgeLoop(shifted, n - 1, idx + 1, t, d)
             ELSE [cells |-> SubSeq(arr, 1, n), panic |-> FALSE]

(* Mutant of purgeExpiredCells: nothing is ever purged. *)
purgeNothing(cs, t, d) == [cells |-> cs, panic |-> FALSE]

(* Mutant of purgeExpiredCells: every cell is purged. *)
purgeEverything(cs, t, d) == [cells |-> <<>>, panic |-> FALSE]

purgeExpiredCells(cs, t, d) == purgeLoop(cs, Len(cs), 0, t, d)

Has(cs, item, t, d) ==
    LET p == purgeExpiredCells(cs, t, d)
    IN  [cells |-> p.cells, panic |-> p.panic,
         ret |-> ~p.panic /\ findMatchingCell(p.cells, item) # 0]

MemLen(cs, t, d) ==
    LET p == purgeExpiredCells(cs, t, d)
    IN  [cells |-> p.cells, panic |-> p.panic, ret |-> Len(p.cells)]

Clean(cs, t, d) == purgeExpiredCells(cs, t, d)

(* The time of the most recent Add of the value v, Never without one. *)
LastAddOf(v) == IF v \in DOMAIN lastAdd THEN lastAdd[v].at ELSE Never

(* The history after an Add of v at time t; the Add is a refresh when the  *)
(* Add of v before it is less than the duration old, failed tells whether  *)
(* the Add followed a runner that returned an error and by names the rule  *)
(* whose action was added.                                                 *)
Recorded(v, t) ==
    [x \in (DOMAIN lastAdd) \cup {v} |->
        IF x = v
        THEN [at |-> t,
              refreshed |-> v \in DOMAIN lastAdd /\ t - lastAdd[v].at < duration,
              failed |-> FALSE, by |-> ""]
        ELSE lastAdd[x]]

(* The items the tests of the memory construct: 1 and 2 are separately     *)
(* constructed and hold the same values, 3 differs in the template and 4   *)
(* in the extra variables.                                                 *)
TextMy == <<"M">>
TextYour == <<"Y">>
TextVars == <<"v">>

Heap ==
    <<AWXJobAction(TextMy, <<>>), AWXJobAction(TextMy, <<>>),
      AWXJobAction(TextYour, <<>>), AWXJobAction(TextMy, TextVars)>>

TestItems == {[ref |-> p, val |-> Heap[p]] : p \in DOMAIN Heap}

NoOp == [op |-> "none", arg |-> NilItem, ret |-> FALSE, len |-> 0,
         panic |-> FALSE]

NoRun == [rule |-> "", item |-> NilItem, at |-> 0, outcome |-> "none",
          prevAdd |-> Never, left |-> <<>>, before |-> 0, invoked |-> <<>>,
          prevFailed |-> FALSE, prevBy |-> ""]

NoPick == [alert |-> [Status |-> "", Labels |-> EmptyMap, Annotations |-> EmptyMap],
           calls |-> <<>>, err |-> FALSE]

(* time.Sleep, or any other passage of time between two calls.  lastOp and *)
(* lastRun describe the call made in the last step, if it made one, and    *)
(* the failure of a runner is on record until the clock moves.             *)
Tick ==
    /\ ~crashed
    /\ now < MaxTime
    /\ now' = now + 1
    /\ lastOp' = NoOp
    /\ lastRun' = NoRun
    /\ lastAdd' = [v \in DOMAIN lastAdd |-> [lastAdd[v] EXCEPT !.failed = FALSE]]
    /\ UNCHANGED <<duration, cells, crashed>>
    /\ UNCHANGED <<rulesCache, rulesQueue, curAlert, activated, requested>>
    /\ lastPick' = IF activated = <<>> THEN NoPick ELSE lastPick
    /\ UNCHANGED lastChange
    /\ UNCHANGED matchVars
    /\ UNCHANGED otherVars

CallAdd ==
    /\ ~crashed
    /\ \E item \in TestItems :
          /\ cells' = Add(cells, item, now)
          /\ lastAdd' = Recorded(item.val, now)
          /\ lastOp' = [op |-> "Add", arg |-> item, ret |-> FALSE,
                        len |-> 0, panic |-> FALSE]
    /\ UNCHANGED <<now, duration, crashed>>
    /\ UNCHANGED healerVars
    /\ UNCHANGED matchVars
    /\ UNCHANGED otherVars

CallHas ==
    /\ ~crashed
    /\ \E item \in TestItems :
          LET h == Has(cells, item, now, duration)
          IN  /\ cells' = h.cells
              /\ crashed' = h.panic
              /\ lastOp' = [op |-> "Has", arg |-> item, ret |-> h.ret,
                            len |-> 0, panic |-> h.panic]
    /\ UNCHANGED <<now, duration, lastAdd>>
    /\ UNCHANGED healerVars
    /\ UNCHANGED matchVars
    /\ UNCHANGED otherVars

CallLen ==
    /\ ~crashed
    /\ LET l == MemLen(cells, now, duration)
       IN  /\ cells' = l.cells
           /\ crashed' = l.panic
           /\ lastOp' = [op |-> "Len", arg |-> NilItem, ret |-> FALSE,
                         len |-> l.ret, panic |-> l.panic]
    /\ UNCHANGED <<now, duration, lastAdd>>
    /\ UNCHANGED healerVars
    /\ UNCHANGED matchVars
    /\ UNCHANGED otherVars

CallClean ==
    /\ ~crashed
    /\ LET c == Clean(cells, now, duration)
       IN  /\ cells' = c.cells
           /\ crashed' = c.panic
           /\ lastOp' = [op |-> "Clean", arg |-> NilItem, ret |-> FALSE,
                         len |-> 0, panic |-> c.panic]
    /\ UNCHANGED <<now, duration, lastAdd>>
    /\ UNCHANGED healerVars
    /\ UNCHANGED matchVars
    /\ UNCHANGED otherVars

(* The memory called by several goroutines at once.  Each method takes the *)
(* mutex in its first statement and its deferred Unlock gives it back when *)
(* the method returns or panics; a goroutine that finds the mutex taken    *)
(* waits in Lock.                                                          *)
Callers == {1, 2}

Lock(c) ==
    /\ ~crashed
    /\ mutex = 0
    /\ mutex' = c
    /\ UNCHANGED memVars
    /\ UNCHANGED healerVars
    /\ UNCHANGED matchVars
    /\ UNCHANGED <<pollerVars, lifeVars, templateVars, configVars>>

LockedAdd(c) ==
    /\ ~crashed
    /\ mutex = c
    /\ \E item \in TestItems :
          /\ cells' = Add(cells, item, now)
          /\ lastOp' = [op |-> "Add", arg |-> item, ret |-> FALSE,
                        len |-> 0, panic |-> FALSE]
    /\ mutex' = 0
    /\ UNCHANGED <<now, duration, crashed, lastAdd>>
    /\ UNCHANGED healerVars
    /\ UNCHANGED matchVars
    /\ UNCHANGED <<pollerVars, lifeVars, templateVars, configVars>>

LockedHas(c) ==
    /\ ~crashed
    /\ mutex = c
    /\ \E item \in TestItems :
          LET h == Has(cells, item, now, duration)
          IN  /\ cells' = h.cells
              /\ crashed' = h.panic
              /\ lastOp' = [op |-> "Has", arg |-> item, ret |-> h.ret,
                            len |-> 0, panic |-> h.panic]
    /\ mutex' = 0
    /\ UNCHANGED <<now, duration, lastAdd>>
    /\ UNCHANGED healerVars
    /\ UNCHANGED matchVars
    /\ UNCHANGED <<pollerVars, lifeVars, templateVars, configVars>>

LockedLen(c) ==
    /\ ~crashed
    /\ mutex = c
    /\ LET l == MemLen(cells, now, duration)
       IN  /\ cells' = l.cells
           /\ crashed' = l.panic
           /\ lastOp' = [op |-> "Len", arg |-> NilItem, ret |-> FALSE,
                         len |-> l.ret, panic |-> l.panic]
    /\ mutex' = 0
    /\ UNCHANGED <<now, duration, lastAdd>>
    /\ UNCHANGED healerVars
    /\ UNCHANGED matchVars
    /\ UNCHANGED <<pollerVars, lifeVars, templateVars, configVars>>

LockedClean(c) ==
    /\ ~crashed
    /\ mutex = c
    /\ LET k == Clean(cells, now, duration)
       IN  /\ cells' = k.cells
           /\ crashed' = k.panic
           /\ lastOp' = [op |-> "Clean", arg |-> NilItem, ret |-> FALSE,
                         len |-> 0, panic |-> k.panic]
    /\ mutex' = 0
    /\ UNCHANGED <<now, duration, lastAdd>>
    /\ UNCHANGED healerVars
    /\ UNCHANGED matchVars
    /\ UNCHANGED <<pollerVars, lifeVars, templateVars, configVars>>


----------------------------------------------------------------------------
(* Template expansion of the strings of an action.                         *)

(* The actions a template can hold and the value of the alert they print.  *)
TemplateActions ==
    [t \in {"{{$labels.service}}", "{{$labels.alertname}}"} |->
        IF t = "{{$labels.service}}" THEN "service" ELSE "alertname"]

(* Text that template.Parse rejects: an undefined variable, an unclosed    *)
(* action.                                                                 *)
BadTemplateTokens == {"{{$foo}}", "{{"}

(* tmpl.Execute: the text with every action replaced by the label it       *)
(* names; a label the alert does not carry prints as the empty string.     *)
RECURSIVE Execute(_, _)
Execute(text, alert) ==
    IF text = <<>> THEN <<>>
    ELSE LET tok == Head(text)
             out == IF tok \in DOMAIN TemplateActions
                    THEN IF TemplateActions[tok] \in DOMAIN alert.Labels
                         THEN alert.Labels[TemplateActions[tok]]
                         ELSE <<>>
                    ELSE <<tok>>
         IN  out \o Execute(Tail(text), alert)

(* Mutant of processString: the text is not rendered. *)
processStringVerbatim(text, alert) == [text |-> text, err |-> FALSE]

processString(text, alert) ==
    IF \E i \in 1..Len(text) : text[i] \in BadTemplateTokens
    THEN [text |-> text, err |-> TRUE]
    ELSE [text |-> Execute(text, alert), err |-> FALSE]

(* Process on a pointer to an action: processValue visits the fields of    *)
(* the struct in order and stops at the first error, leaving the fields    *)
(* already rendered as they are.                                           *)
Process(action, alert) ==
    IF action.kind = "AWXJobAction"
    THEN LET t == processString(action.Template, alert)
             e == processString(action.ExtraVars, alert)
         IN  IF t.err THEN [val |-> action, err |-> TRUE]
             ELSE IF e.err
             THEN [val |-> [action EXCEPT !.Template = t.text], err |-> TRUE]
             ELSE [val |-> [action EXCEPT !.Template = t.text,
                                          !.ExtraVars = e.text],
                   err |-> FALSE]
    ELSE LET n == processString(action.Name, alert)
             s == processString(action.Namespace, alert)
         IN  IF n.err THEN [val |-> action, err |-> TRUE]
             ELSE IF s.err
             THEN [val |-> [action EXCEPT !.Name = n.text], err |-> TRUE]
             ELSE [val |-> [action EXCEPT !.Name = n.text,
                                          !.Namespace = s.text],
                   err |-> FALSE]

----------------------------------------------------------------------------
(* Rules, alerts and the alerts worker.                                    *)

NameDown == <<"D">>
NameUp == <<"U">>
ServiceA == <<"a">>
ServiceB == <<"b">>

HealingRule(name, version, labels, awxJob, batchJob) ==
    [Name |-> name, ResourceVersion |-> version, Labels |-> labels,
     Annotations |-> EmptyMap, AWXJob |-> awxJob, BatchJob |-> batchJob]

OnAlertName(pattern) == [k \in {"alertname"} |-> pattern]

(* The rules of the configurations: "restart" launches a template named     *)
(* after the service label of the alert, "start" matches every alert,      *)
(* "batch" creates a batch job and the template of "broken" does not       *)
(* parse.                                                                  *)
RuleRestart ==
    HealingRule("restart", 1, OnAlertName(NameDown),
                AWXJobAction(<<"R", "{{$labels.service}}">>, <<>>), NilValue)
RuleBatch ==
    HealingRule("batch", 1, OnAlertName(NameUp), NilValue, Job(<<"j">>, <<>>))
RuleStart ==
    HealingRule("start", 1, EmptyMap, AWXJobAction(<<"S">>, <<>>), NilValue)
RuleBroken ==
    HealingRule("broken", 1, OnAlertName(NameUp),
                AWXJobAction(<<"{{$foo}}">>, <<>>), NilValue)

(* "recover" matches the alerts "restart" matches and launches the         *)
(* template "restart" launches for the service a.                          *)
RuleRecover ==
    HealingRule("recover", 1, OnAlertName(NameDown),
                AWXJobAction(<<"R", "a">>, <<>>), NilValue)

(* The pattern of "bad" does not compile. *)
RuleBad ==
    HealingRule("bad", 1, OnAlertName(PatBad), AWXJobAction(<<"B">>, <<>>),
                NilValue)

(* The configurations the service is started with: the rules of each, in   *)
(* the order of the configuration file.                                    *)
Configurations ==
    {<<RuleRestart, RuleBatch>>, <<RuleStart, RuleBroken, RuleBad>>}

RuleNames == {"restart", "batch", "start", "broken", "bad", "recover"}

RuleChange(type, rule) == [Type |-> type, Rule |-> rule]

NoRule == [Name |-> "", ResourceVersion |-> 0, Labels |-> EmptyMap,
           Annotations |-> EmptyMap, AWXJob |-> NilValue, BatchJob |-> NilValue]

Alert(status, labels) ==
    [Status |-> status, Labels |-> labels, Annotations |-> EmptyMap]

Alerts ==
    {Alert("firing", [k \in {"alertname", "service"} |->
                         IF k = "alertname" THEN NameDown ELSE ServiceA]),
     Alert("firing", [k \in {"alertname", "service"} |->
                         IF k = "alertname" THEN NameDown ELSE ServiceB]),
     Alert("resolved", [k \in {"alertname", "service"} |->
                         IF k = "alertname" THEN NameDown ELSE ServiceA]),
     Alert("firing", [k \in {"alertname"} |-> NameUp])}

NoAlert == Alert("", EmptyMap)

NoChange == [change |-> RuleChange("", NoRule),
             before |-> [n \in RuleNames |-> NoRule],
             err |-> FALSE, calls |-> <<>>]

(* Alert.Name *)
AlertName(alert) ==
    IF "alertname" \in DOMAIN alert.Labels THEN alert.Labels["alertname"] ELSE <<>>

Cached == {n \in RuleNames : rulesCache[n] # NoRule}

(* Mutant of processAddedRule: the rule is stored whatever is cached. *)
processAddedRuleAlways(cache, rule) == [cache EXCEPT ![rule.Name] = rule]

(* Mutant of processDeletedRule: nothing is removed. *)
processDeletedRuleNothing(cache, rule) == cache

(* processRuleChange: Added and Modified store the rule unless the cached  *)
(* rule has the same resource version, Deleted removes it.                 *)
processAddedRule(cache, rule) ==
    IF cache[rule.Name] = NoRule
    THEN [cache EXCEPT ![rule.Name] = rule]
    ELSE IF rule.ResourceVersion # cache[rule.Name].ResourceVersion
    THEN [cache EXCEPT ![rule.Name] = rule]
    ELSE cache

processDeletedRule(cache, rule) ==
    IF cache[rule.Name] # NoRule
    THEN [cache EXCEPT ![rule.Name] = NoRule]
    ELSE cache

processRuleChange(cache, change) ==
    CASE change.Type \in {"Added", "Modified"} -> processAddedRule(cache, change.Rule)
      [] change.Type = "Deleted" -> processDeletedRule(cache, change.Rule)
      [] OTHER -> cache

(* The orders in which Range can visit the rules of the cache. *)
RangeOrders(cache) ==
    LET names == {n \in RuleNames : cache[n] # NoRule}
    IN  {order \in [1..Cardinality(names) -> names] :
            \A i, j \in DOMAIN order : order[i] = order[j] => i = j}

(* reloadRulesCache: a Deleted change for each rule of the cache, in the   *)
(* order of its Range, then an Added change for each rule of the           *)
(* configuration.                                                          *)
reloadRulesCache(queue, cache, order, rules) ==
    queue \o [i \in DOMAIN order |-> RuleChange("Deleted", cache[order[i]])]
          \o [i \in DOMAIN rules |-> RuleChange("Added", rules[i])]

(* The configurations the files are changed to: "start" alone, "start"     *)
(* with another action, "batch" alone and both rules.                      *)
RuleStartEdited ==
    HealingRule("start", 1, EmptyMap, AWXJobAction(<<"S", "e">>, <<>>), NilValue)

ReloadConfigurations ==
    {<<RuleStart>>, <<RuleStartEdited>>, <<RuleBatch>>, <<RuleStart, RuleBatch>>}

(* The listener of the configuration files: load replaces the rules of the *)
(* configuration by those of the files, and the change listener Run added  *)
(* reloads the rules cache.                                                *)
ConfigFilesChanged ==
    /\ ~crashed
    /\ \E rules \in ReloadConfigurations, order \in RangeOrders(rulesCache) :
          /\ Len(rulesQueue) + Len(order) + Len(rules) <= MaxChanges
          /\ config' = rules
          /\ rulesQueue' = reloadRulesCache(rulesQueue, rulesCache, order, rules)
    /\ UNCHANGED <<rulesCache, curAlert, activated, requested, lastRun,
                   lastChange, lastPick>>
    /\ UNCHANGED memVars
    /\ UNCHANGED matchVars
    /\ UNCHANGED <<pollerVars, lifeVars, templateVars, lockVars>>

(* An item of a queue that is neither a rule change nor an alert, and the  *)
(* type assertions of pickRuleChange and pickAlert.                        *)
Stray == [text |-> <<"x">>]

IsRuleChange(item) == DOMAIN item = {"Type", "Rule"}

IsAlert(item) == "Status" \in DOMAIN item

(* The rules worker takes the next rule change of its queue and processes  *)
(* it.                                                                     *)
PickRuleChange ==
    /\ ~crashed
    /\ rulesQueue # <<>>
    /\ IsRuleChange(Head(rulesQueue))
    /\ rulesCache' = processRuleChange(rulesCache, Head(rulesQueue))
    /\ rulesQueue' = Tail(rulesQueue)
    /\ lastChange' = [change |-> Head(rulesQueue), before |-> rulesCache,
                      err |-> FALSE,
                      calls |-> <<"Get", "Done", "Processed", "Forget">>]
    /\ lastRun' = NoRun
    /\ lastPick' = IF activated = <<>> THEN NoPick ELSE lastPick
    /\ UNCHANGED <<curAlert, activated, requested>>
    /\ UNCHANGED memVars
    /\ UNCHANGED matchVars
    /\ UNCHANGED otherVars

(* pickRuleChange when the item Get hands out is not a rule change: the    *)
(* item is forgotten and processRuleChange is called with the nil pointer  *)
(* of the failed type assertion, whose Type it reads: the goroutine        *)
(* panics.                                                                 *)
pickRuleChangeNotOk ==
    /\ ~crashed
    /\ rulesQueue # <<>>
    /\ ~IsRuleChange(Head(rulesQueue))
    /\ rulesQueue' = Tail(rulesQueue)
    /\ lastChange' = [change |-> Head(rulesQueue), before |-> rulesCache,
                      err |-> FALSE,
                      calls |-> <<"Get", "Done", "Forget", "Process">>]
    /\ crashed' = TRUE
    /\ lastRun' = NoRun
    /\ lastPick' = IF activated = <<>> THEN NoPick ELSE lastPick
    /\ UNCHANGED <<rulesCache, curAlert, activated, requested>>
    /\ UNCHANGED <<now, duration, cells, lastOp, lastAdd>>
    /\ UNCHANGED matchVars
    /\ UNCHANGED otherVars

(* pickAlert when the item Get hands out is not an alert: the item is      *)
(* forgotten and processAlert is called with the nil pointer, whose Status *)
(* it reads: the goroutine panics.                                         *)
pickAlertNotOk ==
    /\ ~crashed
    /\ activated = <<>>
    /\ \E item \in {Stray} :
          /\ ~IsAlert(item)
          /\ lastPick' = [alert |-> item,
                          calls |-> <<"Get", "Done", "Forget", "Process">>,
                          err |-> FALSE]
    /\ crashed' = TRUE
    /\ lastRun' = NoRun
    /\ UNCHANGED <<rulesCache, rulesQueue, curAlert, activated, requested,
                   lastChange>>
    /\ UNCHANGED <<now, duration, cells, lastOp, lastAdd>>
    /\ UNCHANGED matchVars
    /\ UNCHANGED otherVars

(* rulesCache.Range of startHealing while the rules worker stores and      *)
(* deletes rules.  Range visits the names the cache held when it started,  *)
(* each once, and loads for each the rule the cache holds for it at the    *)
(* start of the Range or when the name is visited; a name without a rule   *)
(* is passed over.                                                         *)
NoRange == [on |-> FALSE, start |-> [n \in RuleNames |-> NoRule],
            toVisit |-> {}, evaluated |-> {}]

(* Mutant of RangeLoad: a rule that is replaced during the Range is loaded *)
(* with the labels it had and the rest of the new rule.                    *)
RangeLoadTorn(old, new) ==
    IF old # NoRule /\ new # NoRule /\ old # new
    THEN {[new EXCEPT !.Labels = old.Labels]}
    ELSE {old, new}

(* The values Range can load for a name: the pointer stored at any point   *)
(* during the call.                                                        *)
RangeLoad(old, new) == {old, new}

RangeStarts ==
    /\ ~crashed
    /\ ~ranging.on
    /\ ranging' = [on |-> Cached # {}, start |-> rulesCache, toVisit |-> Cached,
                   evaluated |-> {}]
    /\ UNCHANGED <<chkRule, chkAlert, chkOut>>
    /\ UNCHANGED memVars
    /\ UNCHANGED healerVars
    /\ UNCHANGED otherVars

RangeVisits ==
    /\ ~crashed
    /\ ranging.on
    /\ \E n \in ranging.toVisit :
       \E rule \in RangeLoad(ranging.start[n], rulesCache[n]) :
          ranging' = [ranging EXCEPT
                         !.toVisit = @ \ {n},
                         !.on = ranging.toVisit # {n},
                         !.evaluated = IF rule = NoRule THEN @
                                       ELSE @ \cup {rule}]
    /\ UNCHANGED <<chkRule, chkAlert, chkOut>>
    /\ UNCHANGED memVars
    /\ UNCHANGED healerVars
    /\ UNCHANGED otherVars

(* The rule changes of the tests of the rules worker: rules of two names   *)
(* in two versions, each with and without a label.                         *)
TestRules ==
    {HealingRule(name, version, labels, AWXJobAction(<<"S">>, <<>>), NilValue) :
        name \in {"start", "batch"}, version \in {1, 2},
        labels \in {EmptyMap, OnAlertName(NameDown)}}

TestChanges ==
    {RuleChange(type, rule) :
        type \in {"Added", "Modified", "Deleted"}, rule \in TestRules}

(* processRuleChange called with a change, as the tests call it. *)
CallProcessRuleChange ==
    /\ \E change \in TestChanges :
          /\ rulesCache' = processRuleChange(rulesCache, change)
          /\ lastChange' = [change |-> change, before |-> rulesCache,
                            err |-> FALSE, calls |-> <<>>]
    /\ UNCHANGED <<rulesQueue, curAlert, activated, requested, lastRun, lastPick>>
    /\ UNCHANGED memVars
    /\ UNCHANGED matchVars
    /\ UNCHANGED otherVars

(* Mutant of Activates: a rule whose check reports an error is activated. *)
ActivatesOnError(rule, alert) ==
    \E lorder \in Orders(DOMAIN rule.Labels),
       aorder \in Orders(DOMAIN rule.Annotations) :
       LET r == checkRule(rule, alert, lorder, aorder)
       IN  r.matches \/ r.err

(* Mutant of Activates: every rule is activated. *)
ActivatesAll(rule, alert) == TRUE

(* The rule matches the alert and checking it reports no error. *)
Activates(rule, alert) ==
    \E lorder \in Orders(DOMAIN rule.Labels),
       aorder \in Orders(DOMAIN rule.Annotations) :
       LET r == checkRule(rule, alert, lorder, aorder)
       IN  r.matches /\ ~r.err

RECURSIVE Total(_)
Total(counter) ==
    IF DOMAIN counter = {} THEN 0
    ELSE LET k == CHOOSE x \in DOMAIN counter : TRUE
         IN  counter[k] + Total([x \in (DOMAIN counter) \ {k} |-> counter[x]])

(* processAlert up to the loop that runs the activated rules: a firing     *)
(* alert activates the matching rules, in the order in which Range visits  *)
(* the cache; any other alert activates nothing.                           *)
StartHealing ==
    /\ ~crashed
    /\ activated = <<>>
    /\ Total(requested) < MaxRequests
    /\ \E alert \in Alerts :
       \E order \in Orders({n \in Cached : /\ alert.Status = "firing"
                                            /\ Activates(rulesCache[n], alert)}) :
          LET matching == [i \in 1..Len(order) |-> rulesCache[order[i]]]
          IN  /\ activated' = matching
              /\ curAlert' = IF matching = <<>> THEN NoAlert ELSE alert
              /\ lastPick' =
                    [alert |-> alert,
                     calls |-> IF matching = <<>>
                               THEN <<"Get", "Done", "Processed", "Forget">>
                               ELSE <<"Get", "Done">>,
                     err |-> FALSE]
    /\ lastRun' = NoRun
    /\ UNCHANGED <<rulesCache, rulesQueue, requested, lastChange>>
    /\ UNCHANGED memVars
    /\ UNCHANGED matchVars
    /\ UNCHANGED otherVars


(* Mutant of Bump: the counter is left as it is. *)
BumpNothing(counter, key) == counter

Bump(counter, key) ==
    [k \in (DOMAIN counter) \cup {key} |->
        IF k = key
        THEN (IF key \in DOMAIN counter THEN counter[key] ELSE 0) + 1
        ELSE counter[k]]

(* What the runner of the action can answer: a batch job without a name    *)
(* is refused, any other launch succeeds or fails at the remote side.      *)
RunnerAnswers(action) ==
    IF action.kind = "Job" /\ action.Name = <<>> THEN {FALSE} ELSE BOOLEAN

(* Mutant of Remember: only an action that ran without error is recorded. *)
RememberIfSucceeded(cs, item, t, ok) == IF ok THEN Add(cs, item, t) ELSE cs

(* The end of runRule: the action is added to the memory whatever the      *)
(* runner returned.                                                        *)
Remember(cs, item, t, ok) == Add(cs, item, t)

(* The type switch of runRule: the runner that executes the action. *)
RunnerOf(action) ==
    CASE action.kind = "AWXJobAction" -> "runAWXJob"
      [] action.kind = "Job" -> "runBatchJob"
      [] OTHER -> "unknown"

(* The address of a newly allocated action: one that no item held by the   *)
(* memory has.                                                             *)
NewRef(cs) ==
    CHOOSE r \in 1..(Len(cs) + 1) : \A i \in 1..Len(cs) : cs[i].item.ref # r

(* The loop of startHealing goes on with the rules left, and the worker    *)
(* is done with the alert when there are none.                             *)
Continue(left) ==
    /\ activated' = left
    /\ curAlert' = IF left = <<>> THEN NoAlert ELSE curAlert

(* What pickAlert does once runRule has returned: an error ends            *)
(* processAlert and is handed to HandleError, and after the last rule the  *)
(* alert is forgotten.                                                     *)
Returns(left, ok) ==
    lastPick' = IF ~ok
                THEN [lastPick EXCEPT !.calls = @ \o <<"Failed">>, !.err = TRUE]
                ELSE IF left = <<>>
                THEN [lastPick EXCEPT !.calls = @ \o <<"Processed", "Forget">>]
                ELSE lastPick

(* Mutant of DeepCopy: the pointer to the action of the rule itself. *)
SamePointer(action) == [val |-> action, cached |-> TRUE]

(* DeepCopy of the action of a rule: a new object with the same value. *)
DeepCopy(action) == [val |-> action, cached |-> FALSE]

(* The cache once Process has written the strings of the action it was     *)
(* handed: the cache as it was when the action is a copy, and the rule     *)
(* with the written action when it is the action of the cached rule.       *)
Written(cache, rule, action, val) ==
    IF action.cached /\ cache[rule.Name] = rule
    THEN [cache EXCEPT ![rule.Name] =
             IF rule.AWXJob.kind # "nil" THEN [rule EXCEPT !.AWXJob = val]
             ELSE [rule EXCEPT !.BatchJob = val]]
    ELSE cache

(* The count of the requested counter for the key. *)
Count(counter, key) == IF key \in DOMAIN counter THEN counter[key] ELSE 0

(* runRule for the first of the activated rules, and the step of the loop  *)
(* of startHealing around it: an error of runRule ends the loop.           *)
RunRule ==
    /\ ~crashed
    /\ activated # <<>>
    /\ LET rule == Head(activated)
           source == IF rule.AWXJob.kind # "nil" THEN rule.AWXJob ELSE rule.BatchJob
           action == DeepCopy(source)
           expanded == Process(action.val, curAlert)
           item == [ref |-> NewRef(cells), val |-> expanded.val]
           h == Has(cells, item, now, duration)
           key == <<source.kind, rule.Name, AlertName(curAlert)>>
           rest == Tail(activated)
           ran == [rule |-> rule.Name, item |-> item, at |-> now,
                   outcome |-> "none", prevAdd |-> LastAddOf(expanded.val),
                   left |-> [i \in DOMAIN rest |-> rest[i].Name],
                   before |-> Count(requested, key), invoked |-> <<>>,
                   prevFailed |-> /\ expanded.val \in DOMAIN lastAdd
                                  /\ lastAdd[expanded.val].failed,
                   prevBy |-> IF expanded.val \in DOMAIN lastAdd
                              THEN lastAdd[expanded.val].by ELSE ""]
       IN  IF source.kind = "nil"
           THEN /\ Continue(rest)
                /\ Returns(rest, TRUE)
                /\ lastRun' = [ran EXCEPT !.outcome = "noaction", !.item = NilItem]
                /\ UNCHANGED <<requested, rulesCache>>
                /\ UNCHANGED memVars
           ELSE /\ requested' = Bump(requested, key)
                /\ rulesCache' = Written(rulesCache, rule, action, expanded.val)
                /\ IF expanded.err
                   THEN /\ Continue(<<>>)
                        /\ Returns(rest, FALSE)
                        /\ lastRun' = [ran EXCEPT !.outcome = "experr"]
                        /\ UNCHANGED memVars
                   ELSE IF h.panic
                   THEN /\ crashed' = TRUE
                        /\ cells' = h.cells
                        /\ Continue(<<>>)
                        /\ lastRun' = [ran EXCEPT !.outcome = "panic"]
                        /\ UNCHANGED <<now, duration, lastOp, lastAdd, lastPick>>
                   ELSE IF h.ret
                   THEN /\ cells' = h.cells
                        /\ Continue(rest)
                        /\ Returns(rest, TRUE)
                        /\ lastRun' = [ran EXCEPT !.outcome = "throttled"]
                        /\ UNCHANGED <<now, duration, crashed, lastOp, lastAdd>>
                   ELSE \E ok \in RunnerAnswers(expanded.val), dt \in {0, 1} :
                        /\ now + dt <= MaxTime
                        /\ now' = now + dt
                        /\ cells' = Remember(h.cells, item, now + dt, ok)
                        /\ lastAdd' = [Recorded(expanded.val, now + dt) EXCEPT
                                          ![expanded.val].failed = ~ok,
                                          ![expanded.val].by = rule.Name]
                        /\ Continue(IF ok THEN rest ELSE <<>>)
                        /\ Returns(rest, ok)
                        /\ lastRun' = [ran EXCEPT
                                          !.outcome = IF ok THEN "dispatched"
                                                      ELSE "failed",
                                          !.invoked =
                                             <<[runner |-> RunnerOf(expanded.val),
                                                rule |-> rule.Name,
                                                alert |-> curAlert]>>]
                        /\ UNCHANGED <<duration, crashed, lastOp>>
    /\ UNCHANGED <<rulesQueue, lastChange>>
    /\ UNCHANGED matchVars
    /\ UNCHANGED otherVars

----------------------------------------------------------------------------
(* The AWX runner: the launch of a job and the active jobs worker.         *)

(* JobStatus: the statuses the AWX server reports. *)
JobStatuses ==
    {"new", "pending", "waiting", "running", "successful", "failed", "error",
     "cancelled"}

(* What a status query is answered: a status, or nothing when the server   *)
(* cannot be reached.                                                      *)
Unreachable == "unreachable"
Answers == JobStatuses \cup {Unreachable}

(* Mutant of IsFinished: no status is final. *)
IsFinishedNever(status) == FALSE

IsFinished(status) == status \in {"successful", "failed", "error", "cancelled"}

checkAWXJobStatus(answer) ==
    IF answer = Unreachable
    THEN [finished |-> FALSE, err |-> TRUE]
    ELSE [finished |-> IsFinished(answer), err |-> FALSE]

(* Mutant of RangeGoesOn: a failed query ends the Range. *)
RangeStopsOnError(err) == ~err

(* What the function handed to activeJobs.Range returns: true, whether the *)
(* query failed or not.                                                    *)
RangeGoesOn(err) == TRUE

Gauge(g, key) == IF key \in DOMAIN g THEN g[key] ELSE 0

GaugeAdd(g, key, d) ==
    [k \in (DOMAIN g) \cup {key} |-> IF k = key THEN Gauge(g, key) + d ELSE g[k]]

ActionStarted(g, actionType, templateName, ruleName) ==
    GaugeAdd(g, <<actionType, templateName, ruleName, "running">>, 1)

ActionCompleted(g, actionType, templateName, ruleName) ==
    GaugeAdd(GaugeAdd(g, <<actionType, templateName, ruleName, "running">>, 0 - 1),
             <<actionType, templateName, ruleName, "completed">>, 1)

(* The sum of the launched gauge over the label tuples of one status. *)
RECURSIVE SumOver(_, _)
SumOver(g, keys) ==
    IF keys = {} THEN 0
    ELSE LET k == CHOOSE x \in keys : TRUE
         IN  g[k] + SumOver(g, keys \ {k})

Launched(g, status) == SumOver(g, {k \in DOMAIN g : k[4] = status})

(* The rules that launch AWX jobs and the alerts they are launched for. *)
PollerRules == {RuleRestart, RuleStart}
FiringAlerts == {a \in Alerts : a.Status = "firing" /\ "service" \in DOMAIN a.Labels}

(* The alerts the runner is asked to launch jobs for. *)
LaunchAlerts == {a \in FiringAlerts : a.Labels["service"] = ServiceA}

NoPass == [ranging |-> FALSE, toVisit |-> <<>>, finishedJobs |-> <<>>,
           done |-> FALSE, tracked |-> {}, retry |-> {}, answers |-> EmptyMap,
           moved |-> EmptyMap]

NoLaunch == [last |-> "none", before |-> {}, finished |-> {}]

(* launchAWXJob for the template the expanded action names: the request to *)
(* launch is refused, or the job is counted as running and stored in the   *)
(* active jobs.  A Range that is under way may or may not visit the new    *)
(* job.                                                                    *)
launchAWXJob ==
    /\ \/ /\ launchLog' = [launchLog EXCEPT
                             !.last = "refused", !.before = DOMAIN activeJobs]
          /\ UNCHANGED <<activeJobs, actionsLaunched, jobsLaunched, pass>>
       \/ /\ jobsLaunched < MaxJobs
          /\ \E rule \in PollerRules, alert \in LaunchAlerts :
                LET action == Process(rule.AWXJob, alert).val
                    job == jobsLaunched + 1
                IN  /\ jobsLaunched' = job
                    /\ launchLog' = [launchLog EXCEPT
                                        !.last = "none", !.before = {}]
                    /\ actionsLaunched' =
                          ActionStarted(actionsLaunched, "AWXJob",
                                        action.Template, rule.Name)
                    /\ activeJobs' = [j \in (DOMAIN activeJobs) \cup {job} |->
                                         IF j = job THEN rule ELSE activeJobs[j]]
                    /\ \E seen \in BOOLEAN :
                          pass' = IF pass.ranging /\ seen
                                  THEN [pass EXCEPT !.toVisit = Append(@, job)]
                                  ELSE pass
    /\ UNCHANGED memVars
    /\ UNCHANGED healerVars
    /\ UNCHANGED matchVars
    /\ UNCHANGED lifeVars
    /\ UNCHANGED templateVars
    /\ UNCHANGED <<lockVars, configVars>>

(* Mutant of Retire: the pass deletes every job. *)
RetireEverything(jobs, finished) == EmptyMap

(* The jobs left once the finished ones are deleted. *)
Retire(jobs, finished) ==
    [j \in (DOMAIN jobs) \ Range(finished) |-> jobs[j]]

(* runActiveJobsWorker starts a pass over the active jobs, in the order    *)
(* Range yields them; a pass over no jobs is over at once.                 *)
runActiveJobsWorker ==
    /\ ~pass.ranging
    /\ \E order \in Orders(DOMAIN activeJobs) :
          pass' = [ranging |-> order # <<>>, toVisit |-> order,
                   finishedJobs |-> <<>>, done |-> order = <<>>,
                   tracked |-> DOMAIN activeJobs,
                   retry |-> {j \in DOMAIN pass.answers :
                                 pass.answers[j] = Unreachable},
                   answers |-> EmptyMap, moved |-> EmptyMap]
    /\ launchLog' = [launchLog EXCEPT !.last = "none", !.before = {}]
    /\ UNCHANGED <<activeJobs, actionsLaunched, jobsLaunched>>
    /\ UNCHANGED memVars
    /\ UNCHANGED healerVars
    /\ UNCHANGED matchVars
    /\ UNCHANGED lifeVars
    /\ UNCHANGED templateVars
    /\ UNCHANGED <<lockVars, configVars>>

(* The function runActiveJobsWorker hands to Range, for the next job: the  *)
(* status is queried and a finished job is collected and counted as        *)
(* completed.  After the last job the finished ones are deleted.           *)
checkActiveJob ==
    /\ pass.ranging
    /\ \E answer \in Answers :
          LET id == Head(pass.toVisit)
              rule == activeJobs[id]
              status == checkAWXJobStatus(answer)
              finishedJobs == IF status.finished
                              THEN Append(pass.finishedJobs, id)
                              ELSE pass.finishedJobs
              launched == IF status.finished
                          THEN ActionCompleted(actionsLaunched, "AWXJob",
                                               rule.AWXJob.Template, rule.Name)
                          ELSE actionsLaunched
              rest == IF RangeGoesOn(status.err) THEN Tail(pass.toVisit) ELSE <<>>
              moved == [running |-> Launched(launched, "running")
                                       - Launched(actionsLaunched, "running"),
                        completed |-> Launched(launched, "completed")
                                       - Launched(actionsLaunched, "completed")]
          IN  /\ actionsLaunched' = launched
              /\ activeJobs' = IF rest = <<>> THEN Retire(activeJobs, finishedJobs)
                               ELSE activeJobs
              /\ pass' = [pass EXCEPT
                             !.ranging = rest # <<>>,
                             !.done = rest = <<>>,
                             !.toVisit = rest,
                             !.finishedJobs = finishedJobs,
                             !.answers = [j \in (DOMAIN @) \cup {id} |->
                                             IF j = id THEN answer ELSE @[j]],
                             !.moved = [j \in (DOMAIN @) \cup {id} |->
                                           IF j = id THEN moved ELSE @[j]]]
              /\ launchLog' = [launchLog EXCEPT
                                  !.last = "none", !.before = {},
                                  !.finished = IF status.finished
                                               THEN @ \cup {id} ELSE @]
    /\ UNCHANGED jobsLaunched
    /\ UNCHANGED memVars
    /\ UNCHANGED healerVars
    /\ UNCHANGED matchVars
    /\ UNCHANGED lifeVars
    /\ UNCHANGED templateVars
    /\ UNCHANGED <<lockVars, configVars>>

----------------------------------------------------------------------------
(* Start and stop of the service: Healer.Run, the two queues and the       *)
(* three worker functions that wait.Until runs.                            *)

QueueWorkers == {"rules", "alerts"}
Workers == QueueWorkers \cup {"activeJobs"}

(* What the worker function of a queue did in its last step, if it ended   *)
(* a call of pickRuleChange or pickAlert: what Get handed out and what the *)
(* call returned.                                                          *)
NoPickCall == [got |-> "none", ret |-> FALSE]

(* A queue: the number of items waiting, whether ShutDown was called,      *)
(* whether that call found its worker waiting for an item, and the call of *)
(* the pick function that just ended.                                      *)
NewQueue == [items |-> 0, down |-> FALSE, released |-> FALSE, pick |-> NoPickCall]

(* The errors processing an item can end with: processRuleChange returns   *)
(* none, processAlert returns the error of the rule that failed to run.    *)
ProcessErrors(w) == IF w = "alerts" THEN BOOLEAN ELSE {FALSE}

(* Mutant of PickReturns: the worker loop ends when processing failed. *)
PickReturnsUnlessFailed(err) == ~err

(* What pickRuleChange and pickAlert return once Get has handed out an     *)
(* item: true, whether processing it returned an error or not.            *)
PickReturns(err) == TRUE

(* Queue.Add: a queue that is shutting down ignores the item. *)
QueueAdd(q) == IF q.down THEN q ELSE [q EXCEPT !.items = @ + 1]

(* Mutant of ShutDown: the queue is left open. *)
ShutDownNothing(q, waiting) == q

(* Queue.ShutDown: the queue takes no more items and a Get that waits for  *)
(* one is woken up.                                                        *)
ShutDown(q, waiting) ==
    [q EXCEPT !.down = TRUE, !.released = waiting /\ q.items = 0]

(* The stop channel is closed. *)
CloseStopCh ==
    /\ ~stopCh
    /\ stopCh' = TRUE
    /\ UNCHANGED <<runPc, queues, workers>>
    /\ UNCHANGED memVars
    /\ UNCHANGED healerVars
    /\ UNCHANGED matchVars
    /\ UNCHANGED pollerVars
    /\ UNCHANGED templateVars
    /\ UNCHANGED <<lockVars, configVars>>

(* handleMessage: the web server puts an alert in the alerts queue, at     *)
(* once or when the rate limiter lets it.                                  *)
QueueAlert ==
    /\ queues["alerts"].items < MaxQueued
    /\ queues' = [queues EXCEPT !["alerts"] = QueueAdd(@)]
    /\ UNCHANGED <<stopCh, runPc, workers>>
    /\ UNCHANGED memVars
    /\ UNCHANGED healerVars
    /\ UNCHANGED matchVars
    /\ UNCHANGED pollerVars
    /\ UNCHANGED templateVars
    /\ UNCHANGED <<lockVars, configVars>>

(* reloadRulesCache, called by the change listener of the configuration    *)
(* until the configuration is shut down, puts a rule change in the rules   *)
(* queue.                                                                  *)
QueueRuleChange ==
    /\ runPc \in {"wait", "server.Shutdown", "config.ShutDown"}
    /\ queues["rules"].items < MaxQueued
    /\ queues' = [queues EXCEPT !["rules"] = QueueAdd(@)]
    /\ UNCHANGED <<stopCh, runPc, workers>>
    /\ UNCHANGED memVars
    /\ UNCHANGED healerVars
    /\ UNCHANGED matchVars
    /\ UNCHANGED pollerVars
    /\ UNCHANGED templateVars
    /\ UNCHANGED <<lockVars, configVars>>

(* Healer.Run from the wait for the stop channel on: the web server is     *)
(* shut down and the deferred calls run, last deferred first.              *)
RunStops ==
    /\ CASE runPc = "wait" ->
                /\ stopCh
                /\ runPc' = "server.Shutdown"
                /\ UNCHANGED queues
         [] runPc = "server.Shutdown" ->
                /\ runPc' = "config.ShutDown"
                /\ UNCHANGED queues
         [] runPc = "config.ShutDown" ->
                /\ runPc' = "alertsQueue.ShutDown"
                /\ UNCHANGED queues
         [] runPc = "alertsQueue.ShutDown" ->
                /\ runPc' = "rulesQueue.ShutDown"
                /\ queues' = [queues EXCEPT !["alerts"] =
                                 ShutDown(@, workers["alerts"] = "Get")]
         [] runPc = "rulesQueue.ShutDown" ->
                /\ runPc' = "returned"
                /\ queues' = [queues EXCEPT !["rules"] =
                                 ShutDown(@, workers["rules"] = "Get")]
         [] OTHER -> FALSE
    /\ UNCHANGED <<stopCh, workers>>
    /\ UNCHANGED memVars
    /\ UNCHANGED healerVars
    /\ UNCHANGED matchVars
    /\ UNCHANGED pollerVars
    /\ UNCHANGED templateVars
    /\ UNCHANGED <<lockVars, configVars>>

(* wait.Until around runRulesWorker or runAlertsWorker.  Until checks the  *)
(* stop channel and calls the worker function; the function calls Get,     *)
(* which waits while the queue is empty and open, hands out an item to be  *)
(* processed, or tells that the queue is shut down, and then the function  *)
(* returns; Until then sleeps until the period is over or the stop channel *)
(* is closed.                                                              *)
UntilQueueWorker(w) ==
    /\ CASE workers[w] = "Until" ->
                /\ workers' = [workers EXCEPT ![w] = IF stopCh THEN "ended" ELSE "Get"]
                /\ queues' = [queues EXCEPT ![w].pick = NoPickCall]
         [] workers[w] = "Get" ->
                /\ queues[w].items > 0 \/ queues[w].down
                /\ IF queues[w].items > 0
                   THEN /\ queues' = [queues EXCEPT ![w].items = @ - 1,
                                                    ![w].pick = NoPickCall]
                        /\ workers' = [workers EXCEPT ![w] = "process"]
                   ELSE /\ workers' = [workers EXCEPT ![w] = "sleep"]
                        /\ queues' = [queues EXCEPT
                                         ![w].pick = [got |-> "shutdown",
                                                      ret |-> FALSE]]
         [] workers[w] = "process" ->
                \E err \in ProcessErrors(w) :
                   /\ workers' = [workers EXCEPT
                                     ![w] = IF PickReturns(err) THEN "Get"
                                            ELSE "sleep"]
                   /\ queues' = [queues EXCEPT
                                    ![w].pick = [got |-> IF err THEN "failed"
                                                         ELSE "processed",
                                                 ret |-> PickReturns(err)]]
         [] workers[w] = "sleep" ->
                /\ \E stopped \in {stopCh, FALSE} :
                      workers' = [workers EXCEPT
                                     ![w] = IF stopped THEN "ended" ELSE "Until"]
                /\ queues' = [queues EXCEPT ![w].pick = NoPickCall]
         [] OTHER -> FALSE
    /\ UNCHANGED <<stopCh, runPc>>
    /\ UNCHANGED memVars
    /\ UNCHANGED healerVars
    /\ UNCHANGED matchVars
    /\ UNCHANGED pollerVars
    /\ UNCHANGED templateVars
    /\ UNCHANGED <<lockVars, configVars>>

UntilRulesWorker == UntilQueueWorker("rules")

UntilAlertsWorker == UntilQueueWorker("alerts")

(* wait.Until around runActiveJobsWorker: a pass, then the sleep. *)
UntilActiveJobsWorker ==
    /\ CASE workers["activeJobs"] = "Until" ->
                workers' = [workers EXCEPT
                               !["activeJobs"] = IF stopCh THEN "ended" ELSE "pass"]
         [] workers["activeJobs"] = "pass" ->
                workers' = [workers EXCEPT !["activeJobs"] = "sleep"]
         [] workers["activeJobs"] = "sleep" ->
                \E stopped \in {stopCh, FALSE} :
                   workers' = [workers EXCEPT
                                  !["activeJobs"] = IF stopped THEN "ended"
                                                    ELSE "Until"]
         [] OTHER -> FALSE
    /\ UNCHANGED <<stopCh, runPc, queues>>
    /\ UNCHANGED memVars
    /\ UNCHANGED healerVars
    /\ UNCHANGED matchVars
    /\ UNCHANGED pollerVars
    /\ UNCHANGED templateVars
    /\ UNCHANGED <<lockVars, configVars>>

----------------------------------------------------------------------------
(* Template expansion of an object: the two revisions of ObjectTemplate.   *)
(*                                                                         *)
(* A value is a string, a struct or a map.  settable tells whether         *)
(* reflection can set a string: the string a pointer points to and an      *)
(* exported field can be set, an unexported field and a map element can    *)
(* not.                                                                    *)

StringValue(text, settable) ==
    [kind |-> "string", text |-> text, settable |-> settable]

StructValue(fields) == [kind |-> "struct", fields |-> fields]

MapValue(items) == [kind |-> "map", items |-> items]

RECURSIVE processValue(_, _)
RECURSIVE processFields(_, _, _)
RECURSIVE processKeys(_, _, _)

(* Mutant of processStringValue: the error of processString is returned. *)
processStringValueReturningError(v, data) ==
    LET r == processString(v.text, data)
    IN  [output |-> IF r.err THEN v ELSE StringValue(r.text, FALSE),
         object |-> v, err |-> r.err]

(* cmd/autoheal, case reflect.String of processValue: the rendered text is *)
(* the output, the string itself is not set, and the error of              *)
(* processString is assigned to a variable of the case only.               *)
processStringValue(v, data) ==
    LET r == processString(v.text, data)
    IN  [output |-> IF r.err THEN v ELSE StringValue(r.text, FALSE),
         object |-> v, err |-> FALSE]

(* cmd/autoheal, case reflect.Struct: the fields from the i-th on, the     *)
(* output of each dropped.                                                 *)
processFields(fields, i, data) ==
    IF i > Len(fields) THEN [fields |-> fields, err |-> FALSE]
    ELSE LET pv == processValue(fields[i], data)
             after == [fields EXCEPT ![i] = pv.object]
         IN  IF pv.err THEN [fields |-> after, err |-> TRUE]
             ELSE processFields(after, i + 1, data)

(* cmd/autoheal, case reflect.Map: SetMapIndex of the output of each       *)
(* value.  The order of the keys only matters when a value returns an      *)
(* error.                                                                  *)
processKeys(items, keys, data) ==
    IF keys = {} THEN [items |-> items, err |-> FALSE]
    ELSE LET k == CHOOSE x \in keys : TRUE
             pv == processValue(items[k], data)
         IN  IF pv.err THEN [items |-> items, err |-> TRUE]
             ELSE processKeys([items EXCEPT ![k] = pv.output], keys \ {k}, data)

(* cmd/autoheal, processValue: output is the value it returns and object   *)
(* the value it was called with, as the call leaves it.                    *)
processValue(v, data) ==
    CASE v.kind = "string" -> processStringValue(v, data)
      [] v.kind = "map" ->
            LET m == processKeys(v.items, DOMAIN v.items, data)
            IN  [output |-> MapValue(m.items), object |-> MapValue(m.items),
                 err |-> m.err]
      [] v.kind = "struct" ->
            LET f == processFields(v.fields, 1, data)
            IN  [output |-> StructValue(f.fields), object |-> StructValue(f.fields),
                 err |-> f.err]
      [] OTHER -> [output |-> v, object |-> v, err |-> FALSE]

(* cmd/autoheal, Process of a pointer to the object. *)
ProcessAutoheal(object, data) ==
    LET pv == processValue(object, data)
    IN  [object |-> pv.object, err |-> pv.err, panic |-> FALSE]

RECURSIVE setValue(_, _)
RECURSIVE setFields(_, _, _)

(* cmd/alert-healer, processString: the rendered text is set with          *)
(* SetString, which panics when the string can not be set.                 *)
setString(v, data) ==
    LET r == processString(v.text, data)
    IN  IF r.err THEN [object |-> v, err |-> TRUE, panic |-> FALSE]
        ELSE IF ~v.settable THEN [object |-> v, err |-> FALSE, panic |-> TRUE]
        ELSE [object |-> [v EXCEPT !.text = r.text], err |-> FALSE,
              panic |-> FALSE]

(* cmd/alert-healer, case reflect.Struct: the fields from the i-th on,     *)
(* while there is no error.                                                *)
setFields(fields, i, data) ==
    IF i > Len(fields) THEN [fields |-> fields, err |-> FALSE, panic |-> FALSE]
    ELSE LET sv == setValue(fields[i], data)
             after == [fields EXCEPT ![i] = sv.object]
         IN  IF sv.err \/ sv.panic
             THEN [fields |-> after, err |-> sv.err, panic |-> sv.panic]
             ELSE setFields(after, i + 1, data)

(* cmd/alert-healer, processValue: strings and structs, nothing else. *)
setValue(v, data) ==
    CASE v.kind = "string" -> setString(v, data)
      [] v.kind = "struct" ->
            LET f == setFields(v.fields, 1, data)
            IN  [object |-> StructValue(f.fields), err |-> f.err,
                 panic |-> f.panic]
      [] OTHER -> [object |-> v, err |-> FALSE, panic |-> FALSE]

(* cmd/alert-healer, Process of a pointer to the object. *)
ProcessAlertHealer(object, data) == setValue(object, data)

(* The texts of the tests: plain text, a template of a variable that is    *)
(* defined, one of a variable that is not, and an action left open.        *)
TextPlain == <<"p">>
TextTemplate == <<"R", "{{$labels.service}}">>
TextUndefined == <<"T", "{{$foo}}">>
TextOpen == <<"{{">>
TemplateTexts == {TextPlain, TextTemplate, TextUndefined, TextOpen}

MapKeys == {"a", "b"}

TemplateMaps ==
    {MapValue(m) : m \in UNION {[d -> {StringValue(t, FALSE) : t \in TemplateTexts}] :
                                   d \in SUBSET MapKeys}}

TemplateFields ==
    {StringValue(t, e) : t \in TemplateTexts, e \in BOOLEAN}
       \cup {m \in TemplateMaps : DOMAIN m.items = {"a"}}

TemplateObjects ==
    {StringValue(t, TRUE) : t \in TemplateTexts}
       \cup TemplateMaps
       \cup {StructValue(f) : f \in UNION {[1..n -> TemplateFields] : n \in 1..MaxFields}}

NotProcessed == [revision |-> "", object |-> StringValue(<<>>, FALSE), err |-> FALSE,
                 panic |-> FALSE]

(* Process of either revision on a pointer to the object, as the tests     *)
(* call it.                                                                *)
CallProcessAutoheal ==
    /\ tplOut = NotProcessed
    /\ LET p == ProcessAutoheal(tplIn, tplData)
       IN  tplOut' = [revision |-> "autoheal", object |-> p.object,
                      err |-> p.err, panic |-> p.panic]
    /\ UNCHANGED <<tplIn, tplData>>
    /\ UNCHANGED memVars
    /\ UNCHANGED healerVars
    /\ UNCHANGED matchVars
    /\ UNCHANGED <<pollerVars, lifeVars, lockVars, configVars>>

CallProcessAlertHealer ==
    /\ tplOut = NotProcessed
    /\ LET p == ProcessAlertHealer(tplIn, tplData)
       IN  tplOut' = [revision |-> "alert-healer", object |-> p.object,
                      err |-> p.err, panic |-> p.panic]
    /\ UNCHANGED <<tplIn, tplData>>
    /\ UNCHANGED memVars
    /\ UNCHANGED healerVars
    /\ UNCHANGED matchVars
    /\ UNCHANGED <<pollerVars, lifeVars, lockVars, configVars>>

----------------------------------------------------------------------------
(* Specifications.                                                         *)

InitPoller ==
    /\ activeJobs = EmptyMap
    /\ actionsLaunched = EmptyMap
    /\ jobsLaunched = 0
    /\ pass = NoPass
    /\ launchLog = NoLaunch

(* Run has started the workers and waits for the stop channel. *)
InitLife ==
    /\ stopCh = FALSE
    /\ runPc = "wait"
    /\ queues = [w \in QueueWorkers |-> NewQueue]
    /\ workers = [w \in Workers |-> "Until"]

InitTemplateIdle ==
    /\ tplIn = StringValue(<<>>, FALSE)
    /\ tplData = NoAlert
    /\ tplOut = NotProcessed

InitLock == mutex = 0

InitOther == InitPoller /\ InitLife /\ InitTemplateIdle /\ InitLock

InitMemory ==
    /\ now = 0
    /\ duration \in 0..MaxDuration
    /\ cells = <<>>
    /\ crashed = FALSE
    /\ lastOp = NoOp
    /\ lastAdd = EmptyMap

InitHealer ==
    /\ rulesCache = [n \in RuleNames |-> NoRule]
    /\ config \in Configurations
    /\ rulesQueue = [i \in DOMAIN config |-> RuleChange("Added", config[i])]
    /\ curAlert = NoAlert
    /\ activated = <<>>
    /\ requested = EmptyMap
    /\ lastRun = NoRun
    /\ lastChange = NoChange
    /\ lastPick = NoPick

InitMatch ==
    /\ chkRule = [Labels |-> EmptyMap, Annotations |-> EmptyMap]
    /\ chkAlert = [Labels |-> EmptyMap, Annotations |-> EmptyMap]
    /\ chkOut = NotChecked
    /\ ranging = NoRange

(* The healer once Run has queued the rules of the configuration: the      *)
(* rules worker and the alerts worker.                                     *)
Init == InitMemory /\ InitHealer /\ InitMatch /\ InitOther

Next == PickRuleChange \/ StartHealing \/ RunRule \/ Tick

Spec == Init /\ [][Next]_vars

(* The healer started with two rules whose actions can expand to the same  *)
(* value.                                                                  *)
InitTwins ==
    /\ InitMemory
    /\ InitMatch
    /\ InitOther
    /\ rulesCache = [n \in RuleNames |-> NoRule]
    /\ config = <<>>
    /\ rulesQueue = <<RuleChange("Added", RuleRestart),
                      RuleChange("Added", RuleRecover)>>
    /\ curAlert = NoAlert
    /\ activated = <<>>
    /\ requested = EmptyMap
    /\ lastRun = NoRun
    /\ lastChange = NoChange
    /\ lastPick = NoPick

SpecTwins == InitTwins /\ [][Next]_vars

(* The rules worker and the Range of the alerts worker side by side: rule  *)
(* "start" is added, replaced by a newer version with other labels and     *)
(* another action, and deleted, and rule "batch" is added.                 *)
RuleStartAgain ==
    HealingRule("start", 2, OnAlertName(NameDown),
                AWXJobAction(<<"S", "2">>, <<>>), NilValue)

CacheChanges ==
    {<<RuleChange("Added", RuleStart), RuleChange("Added", RuleBatch),
       RuleChange("Modified", RuleStartAgain),
       RuleChange("Deleted", RuleStartAgain)>>,
     <<RuleChange("Added", RuleBatch), RuleChange("Added", RuleStart),
       RuleChange("Deleted", RuleBatch),
       RuleChange("Added", RuleStartAgain)>>}

InitCache ==
    /\ InitMemory
    /\ InitMatch
    /\ InitOther
    /\ rulesCache = [n \in RuleNames |-> NoRule]
    /\ config = <<>>
    /\ rulesQueue \in CacheChanges
    /\ curAlert = NoAlert
    /\ activated = <<>>
    /\ requested = EmptyMap
    /\ lastRun = NoRun
    /\ lastChange = NoChange
    /\ lastPick = NoPick

NextCache == PickRuleChange \/ RangeStarts \/ RangeVisits

SpecCache == InitCache /\ [][NextCache]_vars

(* The rules worker while the configuration files change: Run has queued   *)
(* the rules of the configuration the service was built with.              *)
InitReload ==
    /\ InitMemory
    /\ InitMatch
    /\ InitPoller /\ InitLife /\ InitTemplateIdle /\ InitLock
    /\ rulesCache = [n \in RuleNames |-> NoRule]
    /\ config \in ReloadConfigurations
    /\ rulesQueue = reloadRulesCache(<<>>, rulesCache, <<>>, config)
    /\ curAlert = NoAlert
    /\ activated = <<>>
    /\ requested = EmptyMap
    /\ lastRun = NoRun
    /\ lastChange = NoChange
    /\ lastPick = NoPick

NextReload == PickRuleChange \/ ConfigFilesChanged

SpecReload == InitReload /\ [][NextReload]_vars

(* The pick functions called as their tests call them, on queues that     *)
(* were handed an item of another type next to a rule change and to the    *)
(* alerts.                                                                 *)
InitPick ==
    /\ InitMemory
    /\ InitMatch
    /\ InitOther
    /\ rulesCache = [n \in RuleNames |-> NoRule]
    /\ config = <<>>
    /\ rulesQueue \in {<<RuleChange("Added", RuleStart), Stray>>,
                        <<Stray, RuleChange("Added", RuleStart)>>}
    /\ curAlert = NoAlert
    /\ activated = <<>>
    /\ requested = EmptyMap
    /\ lastRun = NoRun
    /\ lastChange = NoChange
    /\ lastPick = NoPick

NextPick == Next \/ pickRuleChangeNotOk \/ pickAlertNotOk

SpecPick == InitPick /\ [][NextPick]_vars

(* A healer with an empty cache and nothing in its queues. *)
InitEmptyHealer ==
    /\ rulesCache = [n \in RuleNames |-> NoRule]
    /\ config = <<>>
    /\ rulesQueue = <<>>
    /\ curAlert = NoAlert
    /\ activated = <<>>
    /\ requested = EmptyMap
    /\ lastRun = NoRun
    /\ lastChange = NoChange
    /\ lastPick = NoPick

InitRules ==
    /\ InitMemory
    /\ InitMatch
    /\ InitOther
    /\ InitEmptyHealer

(* The memory on its own, called as its tests call it. *)
NextMemory == CallAdd \/ CallHas \/ CallLen \/ CallClean \/ Tick

SpecMemory == InitRules /\ [][NextMemory]_vars

(* The memory shared by goroutines that call it at the same time. *)
NextCallers ==
    \/ \E c \in Callers : Lock(c)
    \/ \E c \in Callers : LockedAdd(c)
    \/ \E c \in Callers : LockedHas(c)
    \/ \E c \in Callers : LockedLen(c)
    \/ \E c \in Callers : LockedClean(c)
    \/ Tick

SpecCallers == InitRules /\ [][NextCallers]_vars

(* The rules worker on its own, on the rule changes of its tests. *)
SpecRules == InitRules /\ [][CallProcessRuleChange]_vars

(* The matcher on its own, on every rule and alert of the bounded sets. *)
InitCheck ==
    /\ InitMemory
    /\ InitHealer
    /\ InitOther
    /\ chkRule \in MatchRules
    /\ chkAlert \in MatchAlerts
    /\ chkOut = NotChecked
    /\ ranging = NoRange

SpecMatch == InitCheck /\ [][CheckRule]_vars

(* The AWX runner on its own: jobs are launched while the active jobs      *)
(* worker makes its passes.                                                *)
InitRunner ==
    /\ InitRules
    /\ duration = 0

NextPoller == launchAWXJob \/ runActiveJobsWorker \/ checkActiveJob

SpecPoller == InitRunner /\ [][NextPoller]_vars

(* The expander on its own, on every object and alert of the bounded sets. *)
InitTemplate ==
    /\ InitMemory
    /\ duration = 0
    /\ InitEmptyHealer
    /\ InitMatch
    /\ InitPoller
    /\ InitLife
    /\ InitLock
    /\ tplIn \in TemplateObjects
    /\ tplData \in FiringAlerts
    /\ tplOut = NotProcessed

NextTemplate == CallProcessAutoheal \/ CallProcessAlertHealer

SpecTemplate == InitTemplate /\ [][NextTemplate]_vars

(* The service from the start of Run to its end.  The goroutines of Run    *)
(* and of the three workers are scheduled whenever they can take a step;   *)
(* nothing is assumed of the stop channel and of the arrival of alerts and *)
(* rule changes.                                                           *)
NextLife ==
    \/ CloseStopCh
    \/ QueueAlert
    \/ QueueRuleChange
    \/ RunStops
    \/ UntilRulesWorker
    \/ UntilAlertsWorker
    \/ UntilActiveJobsWorker

SpecLife ==
    /\ InitRunner
    /\ [][NextLife]_vars
    /\ WF_vars(RunStops)
    /\ WF_vars(UntilRulesWorker)
    /\ WF_vars(UntilAlertsWorker)
    /\ WF_vars(UntilActiveJobsWorker)


----------------------------------------------------------------------------
(* Properties of the alerts worker, checked under Spec.                    *)

(* runRule reached the memory check. *)
Checked == lastRun.outcome \in {"dispatched", "failed", "throttled", "panic"}

(* runRule invoked the runner of the action. *)
Ran == lastRun.outcome \in {"dispatched", "failed"}

(* The expanded values the action of the rule named name can take. *)
ExpansionsOf(name) ==
    {Process(IF rule.AWXJob.kind # "nil" THEN rule.AWXJob ELSE rule.BatchJob,
             alert).val :
        rule \in {r \in UNION {Range(c) : c \in Configurations} : r.Name = name},
        alert \in Alerts}

(* C1: with a throttling interval greater than zero, an action whose       *)
(* expanded value was recorded in the memory less than the interval ago is *)
(* not dispatched again: the repeat is skipped.                            *)
RepeatWithinIntervalIsSkipped ==
    (/\ Checked
     /\ duration > 0
     /\ lastRun.prevAdd # Never
     /\ lastRun.at - lastRun.prevAdd < duration)
    => lastRun.outcome = "throttled"

RepeatWithinIntervalSeen ==
    /\ lastRun.outcome = "throttled"
    /\ duration > 0
    /\ lastRun.prevAdd # Never
    /\ lastRun.at - lastRun.prevAdd < duration

(* C7: an alert that activates a rule and expands its action to a value    *)
(* that was not recorded within the interval is dispatched, also while a   *)
(* different expanded value of the same rule is within its interval.       *)
DifferentExpansionIsDispatched ==
    (/\ Checked
     /\ duration > 0
     /\ (lastRun.prevAdd = Never \/ lastRun.at - lastRun.prevAdd >= duration)
     /\ \E v \in DOMAIN lastAdd :
           /\ v # lastRun.item.val
           /\ v \in ExpansionsOf(lastRun.rule)
           /\ lastRun.at - lastAdd[v].at < duration)
    => Ran

----------------------------------------------------------------------------
(* Properties of the memory, checked under SpecMemory.  lastOp is the call *)
(* made at the present time.                                               *)

Returned(op) == lastOp.op = op /\ ~lastOp.panic

(* C2: Has(x) returns false when the most recent Add(x) is the duration or *)
(* more old.                                                               *)
ExpiredItemIsForgotten ==
    (/\ Returned("Has")
     /\ LastAddOf(lastOp.arg.val) # Never
     /\ now - LastAddOf(lastOp.arg.val) >= duration)
    => ~lastOp.ret

(* C3: Has(x) returns true when the most recent Add(x) is less than the    *)
(* duration old, whatever else the memory holds.                           *)
RecentItemIsRemembered ==
    (/\ lastOp.op = "Has"
     /\ LastAddOf(lastOp.arg.val) # Never
     /\ now - LastAddOf(lastOp.arg.val) < duration)
    => (~lastOp.panic /\ lastOp.ret)

(* C4: Len returns the number of distinct values whose most recent Add is  *)
(* less than the duration old, and after Len, Has or Clean has returned no *)
(* cell as old as the duration remains.                                    *)
LenCountsUnexpiredItems ==
    /\ Returned("Len") =>
          lastOp.len =
             Cardinality({v \in DOMAIN lastAdd : now - lastAdd[v].at < duration})
    /\ (Returned("Len") \/ Returned("Has") \/ Returned("Clean")) =>
          \A i \in 1..Len(cells) : now - cells[i].stamp < duration

(* C5: an Add of a value that is present refreshes its cell and restarts   *)
(* its expiry: no second cell is inserted, and Has of it is true until the *)
(* duration has passed since the second Add.                               *)
RefreshRestartsExpiry ==
    /\ lastOp.op = "Add" =>
          Cardinality({i \in 1..Len(cells) :
                          DeepEqualValue(lastOp.arg.val, cells[i].item.val)}) = 1
    /\ (/\ lastOp.op = "Has"
        /\ lastOp.arg.val \in DOMAIN lastAdd
        /\ lastAdd[lastOp.arg.val].refreshed
        /\ now - lastAdd[lastOp.arg.val].at < duration)
       => (~lastOp.panic /\ lastOp.ret)

(* C6: Has(b) returns true exactly when a cell that is not expired holds a *)
(* value deeply equal to that of b, whichever pointer it was added with.   *)
HasIffUnexpiredEqualCell ==
    Returned("Has") =>
       (lastOp.ret <=>
           \E i \in 1..Len(cells) :
              /\ now - cells[i].stamp < duration
              /\ DeepEqualValue(lastOp.arg.val, cells[i].item.val))

(* C8: with a duration of zero Has returns false after every sequence of   *)
(* calls, and Len returns zero.                                            *)
ZeroDurationRemembersNothing ==
    duration = 0 =>
       /\ lastOp.op = "Has" => (~lastOp.panic /\ ~lastOp.ret)
       /\ lastOp.op = "Len" => (~lastOp.panic /\ lastOp.len = 0)

----------------------------------------------------------------------------
(* Properties of the matcher, checked under SpecMatch.                     *)

Matched(pattern, value) == MatchString(pattern, value).matches

AllMatch(patterns, values) ==
    \A key \in DOMAIN patterns :
       key \in DOMAIN values /\ Matched(patterns[key], values[key])

(* C9: checkRule is true exactly when every label of the rule is a label   *)
(* of the alert whose value its pattern matches, and every annotation of   *)
(* the rule is an annotation of the alert whose value its pattern matches. *)
CheckRuleIsConjunction ==
    chkOut.done =>
       (chkOut.matches <=>
           /\ AllMatch(chkRule.Labels, chkAlert.Labels)
           /\ AllMatch(chkRule.Annotations, chkAlert.Annotations))

(* A rule with two labels, both carried by the alert, of which one matches *)
(* and the other does not.                                                 *)
OneOfTwoLabelsMatches ==
    /\ chkOut.done
    /\ ~chkOut.matches
    /\ DOMAIN chkRule.Labels = {"mylabel", "yourlabel"}
    /\ DOMAIN chkAlert.Labels = {"mylabel", "yourlabel"}
    /\ Matched(chkRule.Labels["mylabel"], chkAlert.Labels["mylabel"])
    /\ ~Matched(chkRule.Labels["yourlabel"], chkAlert.Labels["yourlabel"])
    /\ ~MatchString(chkRule.Labels["yourlabel"], chkAlert.Labels["yourlabel"]).err

(* C10: a rule without labels and annotations matches every alert.         *)
EmptyRuleMatchesEveryAlert ==
    (/\ chkOut.done
     /\ DOMAIN chkRule.Labels = {}
     /\ DOMAIN chkRule.Annotations = {})
    => (chkOut.matches /\ ~chkOut.err)

EmptyRuleMatchedEmptyAlert ==
    /\ chkOut.done
    /\ chkOut.matches
    /\ DOMAIN chkRule.Labels = {}
    /\ DOMAIN chkRule.Annotations = {}
    /\ DOMAIN chkAlert.Labels = {}
    /\ DOMAIN chkAlert.Annotations = {}


(* The map without the keys that are not in keys. *)
Restrict(map, keys) == [k \in (DOMAIN map) \cap keys |-> map[k]]

(* C11: the labels and annotations of the alert that the rule does not     *)
(* mention do not change the result of checkRule: it is the result for the *)
(* alert without them.                                                     *)
ExtraAlertKeysAreIgnored ==
    chkOut.done =>
       \A lorder \in Orders(DOMAIN chkRule.Labels),
          aorder \in Orders(DOMAIN chkRule.Annotations) :
          chkOut.matches =
             checkRule(chkRule,
                       [Labels |-> Restrict(chkAlert.Labels, DOMAIN chkRule.Labels),
                        Annotations |-> Restrict(chkAlert.Annotations,
                                                 DOMAIN chkRule.Annotations)],
                       lorder, aorder).matches

(* A rule with one label matched an alert that carries a second label and  *)
(* an annotation the rule does not mention.                                *)
MatchedWithExtraKeys ==
    /\ chkOut.done
    /\ chkOut.matches
    /\ DOMAIN chkRule.Labels = {"mylabel"}
    /\ DOMAIN chkRule.Annotations = {}
    /\ DOMAIN chkAlert.Labels = {"mylabel", "yourlabel"}
    /\ DOMAIN chkAlert.Annotations = {"myannotation"}


----------------------------------------------------------------------------
(* Properties of startHealing and the rules worker.                        *)

(* The step in which the alerts worker takes an alert from its queue: the *)
(* worker was idle and has made calls on the queue for the alert.          *)
AlertPicked == activated = <<>> /\ lastPick'.calls # <<>>

(* The pattern compiles. *)
Compiles(pattern) == ~MatchString(pattern, <<>>).err

(* Every pattern of the rule matches the value the alert has for its key. *)
RuleMatches(rule, alert) ==
    /\ AllMatch(rule.Labels, alert.Labels)
    /\ AllMatch(rule.Annotations, alert.Annotations)

AddedRuleIsUpserted ==
    lastChange.change.Type \in {"Added", "Modified"} =>
       LET rule == lastChange.change.Rule
           old == lastChange.before[rule.Name]
       IN  /\ old = NoRule => rulesCache[rule.Name] = rule
           /\ (old # NoRule /\ old.ResourceVersion # rule.ResourceVersion) =>
                 rulesCache[rule.Name] = rule
           /\ (old # NoRule /\ old.ResourceVersion = rule.ResourceVersion) =>
                 rulesCache = lastChange.before
           /\ \A n \in RuleNames \ {rule.Name} :
                 rulesCache[n] = lastChange.before[n]
           /\ processRuleChange(rulesCache, lastChange.change) = rulesCache
           /\ ~lastChange.err

(* A Modified change with the version of the cached rule and other labels  *)
(* left the cached rule in place.                                          *)
SameVersionLeftInPlace ==
    /\ lastChange.change.Type = "Modified"
    /\ lastChange.before[lastChange.change.Rule.Name] # NoRule
    /\ lastChange.before[lastChange.change.Rule.Name] # lastChange.change.Rule
    /\ lastChange.before[lastChange.change.Rule.Name].ResourceVersion =
          lastChange.change.Rule.ResourceVersion
    /\ rulesCache[lastChange.change.Rule.Name] # lastChange.change.Rule

(* C14: a Deleted rule change removes the cached rule of that name when    *)
(* there is one and does nothing otherwise; the other cached rules stay as *)
(* they are and no error is returned.                                      *)
DeletedRuleIsRemoved ==
    lastChange.change.Type = "Deleted" =>
       LET name == lastChange.change.Rule.Name
       IN  /\ rulesCache[name] = NoRule
           /\ lastChange.before[name] = NoRule => rulesCache = lastChange.before
           /\ \A n \in RuleNames \ {name} : rulesCache[n] = lastChange.before[n]
           /\ ~lastChange.err

(* A cached rule was deleted while another rule was cached, which stayed.  *)
DeletedOneOfTwo ==
    /\ lastChange.change.Type = "Deleted"
    /\ lastChange.before[lastChange.change.Rule.Name] # NoRule
    /\ rulesCache[lastChange.change.Rule.Name] = NoRule
    /\ Cached # {}


----------------------------------------------------------------------------
(* Properties of the work queues and of the loop over the activated rules. *)

(* The item is marked done only after it was processed. *)
DoneAfterProcessed(calls) ==
    \A i \in DOMAIN calls :
       calls[i] = "Done" => \E j \in 1..(i - 1) : calls[j] = "Processed"

(* An item whose processing failed is queued again. *)
RequeuedWhenFailed(calls) ==
    "Failed" \in Range(calls) => "AddRateLimited" \in Range(calls)

(* C15: an item of the alerts queue or of the rule changes queue is marked *)
(* done only after it was processed successfully, and is queued again with *)
(* AddRateLimited when processing it failed.                               *)
FailedItemIsRequeued ==
    /\ DoneAfterProcessed(lastPick.calls)
    /\ RequeuedWhenFailed(lastPick.calls)
    /\ DoneAfterProcessed(lastChange.calls)
    /\ RequeuedWhenFailed(lastChange.calls)

(* The names of the activated rules that startHealing still has to run. *)
ToRun == [i \in DOMAIN activated |-> activated[i].Name]

(* C16: when the expansion of the action of an activated rule fails, the   *)
(* action is not dispatched and the loop goes on with the other rules the  *)
(* alert activated.                                                        *)
ExpansionErrorSparesOtherRules ==
    lastRun.outcome = "experr" =>
       /\ ToRun = lastRun.left
       /\ ~crashed

(* C17: when the dispatch of the action of an activated rule fails, the    *)
(* loop goes on with the other rules the alert activated.                  *)
DispatchErrorSparesOtherRules ==
    lastRun.outcome = "failed" => ToRun = lastRun.left

(* The key of the requested counter for the rule runRule ran last. *)
LastKey == <<lastRun.item.val.kind, lastRun.rule, AlertName(lastPick.alert)>>

(* C18: for every rule with an action that a firing alert activates the    *)
(* requested counter of its key is incremented exactly once, also when the *)
(* action is throttled and when its dispatch fails: each run counts once,  *)
(* and no activated rule is left without a run when the loop ends.         *)
EveryActivatedRuleIsCountedOnce ==
    lastRun.outcome \in {"experr", "throttled", "dispatched", "failed"} =>
       /\ Count(requested, LastKey) = lastRun.before + 1
       /\ activated = <<>> => lastRun.left = <<>>

(* C19: the requested counter is incremented only once the expansion has   *)
(* succeeded: a rule whose expansion fails is not counted.                 *)
FailedExpansionIsNotCounted ==
    lastRun.outcome = "experr" => Count(requested, LastKey) = lastRun.before

(* C19 as the code has it: the requested counter is incremented before the *)
(* templates are expanded and before the memory check, so a rule is        *)
(* counted also when its expansion fails or its action is throttled.       *)
CountedBeforeExpansion ==
    lastRun.outcome \in {"experr", "throttled", "panic"} =>
       Count(requested, LastKey) = lastRun.before + 1

FailedExpansionCounted ==
    /\ lastRun.outcome = "experr"
    /\ lastRun.rule = "broken"
    /\ Count(requested, LastKey) = lastRun.before + 1

(* C20: processing an alert that is not firing, or a firing alert that no  *)
(* cached rule matches, has no effect: no rule is run, the memory and the  *)
(* requested counter stay as they are and no error is returned.            *)
NoMatchNoEffect ==
    [][(/\ AlertPicked
        /\ \/ lastPick'.alert.Status # "firing"
           \/ \A n \in Cached : ~RuleMatches(rulesCache[n], lastPick'.alert))
       => /\ activated' = <<>>
          /\ lastRun' = NoRun
          /\ cells' = cells
          /\ lastAdd' = lastAdd
          /\ requested' = requested
          /\ crashed' = crashed
          /\ ~lastPick'.err
          /\ lastPick'.calls = <<"Get", "Done", "Processed", "Forget">>]_vars

(* A firing alert was processed that none of the cached rules matches,     *)
(* with an action in the memory.                                           *)
FiringAlertMatchedNoRule ==
    /\ lastPick.alert.Status = "firing"
    /\ Cached # {}
    /\ \A n \in Cached : ~RuleMatches(rulesCache[n], lastPick.alert)
    /\ lastPick.calls = <<"Get", "Done", "Processed", "Forget">>
    /\ activated = <<>>
    /\ cells # <<>>


(* The runner that executes the action of the rule named name. *)
RunnerOfRule(name) ==
    IF rulesCache[name].AWXJob.kind # "nil" THEN "runAWXJob" ELSE "runBatchJob"

(* C21: when a firing alert matches a cached rule and the expanded action  *)
(* was never recorded in the memory, the runner of the variant of the      *)
(* action is invoked exactly once with the rule and the alert, and the     *)
(* runner of the other variant is not invoked.                             *)
RunnerOfVariantInvokedOnce ==
    (/\ lastRun.outcome \notin {"none", "noaction", "experr"}
     /\ lastRun.prevAdd = Never)
    => /\ Ran
       /\ lastRun.invoked = <<[runner |-> RunnerOfRule(lastRun.rule),
                               rule |-> lastRun.rule,
                               alert |-> lastPick.alert]>>

(* C28: the action of a dispatch attempt is recorded in the memory whether *)
(* the runner succeeded or failed, and an identical request within the     *)
(* throttling interval of a failed attempt is skipped.                     *)
FailedAttemptIsRemembered ==
    /\ Ran => /\ LastAddOf(lastRun.item.val) = now
              /\ \E i \in 1..Len(cells) :
                    /\ cells[i].item.val = lastRun.item.val
                    /\ cells[i].stamp = now
    /\ (/\ Checked
        /\ duration > 0
        /\ lastRun.prevFailed
        /\ lastRun.at - lastRun.prevAdd < duration)
       => lastRun.outcome = "throttled"

(* The request for an action whose runner had failed within the interval   *)
(* was skipped.                                                            *)
RepeatOfFailedAttemptSkipped ==
    /\ lastRun.outcome = "throttled"
    /\ lastRun.prevFailed
    /\ duration > 0
    /\ lastRun.at - lastRun.prevAdd < duration
    /\ \E i \in 1..Len(cells) : cells[i].item.val = lastRun.item.val

(* The rules a configuration can hand to the healer. *)
ConfiguredRules ==
    UNION {Range(c) : c \in Configurations} \cup {RuleRecover}

(* C33: processing an alert does not modify a rule of the cache: the        *)
(* templates are expanded in a deep copy of the action, so after any       *)
(* number of alerts every cached rule is a rule as it was configured, with *)
(* its action unexpanded.                                                  *)
CachedRulesStayUnexpanded ==
    \A n \in Cached : rulesCache[n] \in ConfiguredRules

(* Rule "restart" was dispatched with its template expanded for the        *)
(* service of the alert while the cache holds the rule with the template   *)
(* as configured.                                                         *)
ExpandedCopyDispatched ==
    /\ lastRun.outcome = "dispatched"
    /\ lastRun.rule = "restart"
    /\ lastRun.item.val.Template = <<"R">> \o ServiceA
    /\ rulesCache["restart"] = RuleRestart

(* C40: the memory is keyed on the expanded action and not on the rule:    *)
(* when a rule expands its action to a value that another rule recorded    *)
(* less than the throttling interval ago, for the same alert or another    *)
(* one, the action is not dispatched a second time but skipped, and the    *)
(* memory keeps the one cell of the first rule.                            *)
MemoryIsKeyedOnActionNotRule ==
    (/\ Checked
     /\ duration > 0
     /\ lastRun.prevBy \notin {"", lastRun.rule}
     /\ lastRun.at - lastRun.prevAdd < duration)
    => /\ lastRun.outcome = "throttled"
       /\ lastAdd[lastRun.item.val].by = lastRun.prevBy
       /\ Cardinality({i \in 1..Len(cells) :
                          cells[i].item.val = lastRun.item.val}) = 1

(* Rule "recover" was skipped because rule "restart" had run the same      *)
(* expanded action for the same alert within the interval.                 *)
SecondRuleSkippedForSameAlert ==
    /\ lastRun.outcome = "throttled"
    /\ lastRun.rule = "recover"
    /\ lastRun.prevBy = "restart"
    /\ lastRun.prevAdd = now
    /\ lastPick.alert.Labels = [k \in {"alertname", "service"} |->
                                   IF k = "alertname" THEN NameDown ELSE ServiceA]

(* C37: a throttled request does not extend the throttling interval: it    *)
(* adds nothing to the memory and leaves the stamp of the cell of its      *)
(* action as it was, so that the first alert that expands to the action    *)
(* the interval or more after its last record is dispatched again.         *)
ThrottledRequestKeepsStamp ==
    lastRun.outcome = "throttled" =>
       /\ LastAddOf(lastRun.item.val) = lastRun.prevAdd
       /\ \E i \in 1..Len(cells) :
             /\ cells[i].item.val = lastRun.item.val
             /\ cells[i].stamp = lastRun.prevAdd
       /\ \A i \in 1..Len(cells) : cells[i].item.ref # lastRun.item.ref

ThrottlingWindowIsNotExtended ==
    /\ ThrottledRequestKeepsStamp
    /\ (/\ Checked
        /\ lastRun.prevAdd # Never
        /\ lastRun.at - lastRun.prevAdd >= duration)
       => Ran

----------------------------------------------------------------------------
(* Properties of the active jobs worker, checked under SpecPoller.         *)

NotMoved == [running |-> 0, completed |-> 0]
Completed == [running |-> 0 - 1, completed |-> 1]

(* C22: in each pass, every tracked job whose queried status is            *)
(* successful, failed, error or cancelled is removed from the active jobs  *)
(* and one completion, from running to completed, is recorded for it; a    *)
(* job whose status is new, pending, waiting or running stays in the       *)
(* active jobs and no completion is recorded.                              *)
FinishedJobsAreRetired ==
    pass.done =>
       \A id \in DOMAIN pass.answers :
          /\ pass.answers[id] \in {"successful", "failed", "error", "cancelled"}
                => /\ id \notin DOMAIN activeJobs
                   /\ pass.moved[id] = Completed
          /\ pass.answers[id] \in {"new", "pending", "waiting", "running"}
                => /\ id \in DOMAIN activeJobs
                   /\ pass.moved[id] = NotMoved

(* A pass found one job finished and another one still running. *)
OneRetiredOneRunning ==
    /\ pass.done
    /\ \E id, other \in DOMAIN pass.answers :
          /\ pass.answers[id] = "successful"
          /\ id \notin DOMAIN activeJobs
          /\ pass.answers[other] = "running"
          /\ other \in DOMAIN activeJobs

(* C23: a job whose status query fails during a pass stays in the active   *)
(* jobs and is queried again in the next pass, and every other tracked job *)
(* is still queried in the same pass and retired if it is finished.        *)
QueryFailureSparesOtherJobs ==
    pass.done =>
       /\ \A id \in DOMAIN pass.answers :
             pass.answers[id] = Unreachable
                => id \in DOMAIN activeJobs /\ pass.moved[id] = NotMoved
       /\ pass.retry \subseteq DOMAIN pass.answers
       /\ pass.tracked \subseteq DOMAIN pass.answers
       /\ \A id \in pass.tracked :
             pass.answers[id] \in {"successful", "failed", "error", "cancelled"}
                => id \notin DOMAIN activeJobs

(* The query of a job failed in two passes in a row, and the second pass   *)
(* retired another job.                                                    *)
FailedQueryRetriedOtherRetired ==
    /\ pass.done
    /\ \E id \in pass.retry, other \in pass.tracked :
          /\ pass.answers[id] = Unreachable
          /\ id \in DOMAIN activeJobs
          /\ pass.answers[other] = "failed"
          /\ other \notin DOMAIN activeJobs

(* C31: only jobs whose launch succeeded are active jobs and a refused      *)
(* launch leaves the active jobs as they were; a job that was launched is  *)
(* an active job unless a status query reported it finished; and once the  *)
(* pass that was told so is over, a job reported finished is no longer an  *)
(* active job.                                                             *)
ActiveJobsAreLaunchedAndUnfinished ==
    /\ DOMAIN activeJobs \subseteq 1..jobsLaunched
    /\ launchLog.last = "refused" => DOMAIN activeJobs = launchLog.before
    /\ \A job \in 1..jobsLaunched :
          job \notin DOMAIN activeJobs => job \in launchLog.finished
    /\ ~pass.ranging =>
          \A job \in launchLog.finished : job \notin DOMAIN activeJobs

(* A launch was refused while one job was an active job and another had    *)
(* been retired.                                                           *)
RefusedLaunchNextToRetiredJob ==
    /\ launchLog.last = "refused"
    /\ DOMAIN activeJobs # {}
    /\ launchLog.finished # {}
    /\ DOMAIN activeJobs = (1..jobsLaunched) \ launchLog.finished

(* The label tuples a job of a rule can be counted as running under: the   *)
(* template name is the one the rule expands to for some alert.            *)
RunningKeysOf(rule) ==
    {<<"AWXJob", Process(rule.AWXJob, alert).val.Template, rule.Name, "running">> :
        alert \in LaunchAlerts}

(* C39: the completion of a job is recorded under a label tuple its rule   *)
(* starts jobs under, also when the template name of the rule is a         *)
(* template expression; so the running value of the launched gauge is      *)
(* not negative for any label tuple, and over the tuples of a rule it is   *)
(* the number of active jobs of that rule that no status query of the      *)
(* pass under way has reported finished.                                   *)
RunningGaugeCountsActiveJobs ==
    /\ \A key \in DOMAIN actionsLaunched :
          key[4] = "running" => actionsLaunched[key] >= 0
    /\ \A rule \in PollerRules :
          SumOver(actionsLaunched, RunningKeysOf(rule) \cap DOMAIN actionsLaunched)
             = Cardinality({job \in (DOMAIN activeJobs) \ Range(pass.finishedJobs) :
                               activeJobs[job] = rule})

----------------------------------------------------------------------------
(* Properties of the start and stop of the service, checked under          *)
(* SpecLife.                                                               *)

Ended(w) == workers[w] = "ended"

(* C24: once the stop channel is closed, the rules worker, the alerts      *)
(* worker and the active jobs worker each end and stay ended: the queues   *)
(* are shut down, a worker waiting for an item is released, its loop ends  *)
(* and it is not started again.                                            *)
StopEndsEveryWorker == stopCh ~> [](\A w \in Workers : Ended(w))

(* Every worker has ended, and the shut down of each queue found its       *)
(* worker waiting for an item.                                             *)
WaitingWorkersReleased ==
    /\ stopCh
    /\ runPc = "returned"
    /\ \A w \in Workers : Ended(w)
    /\ \A w \in QueueWorkers : queues[w].down /\ queues[w].released

(* The rules the rules worker has passed to processAddedRule: those of the *)
(* Added and Modified changes it has taken from the queue.                 *)
Upserted ==
    {r \in {RuleStart, RuleBatch, RuleStartAgain} :
        \E c \in CacheChanges :
           \E i \in 1..(Len(c) - Len(rulesQueue)) :
              /\ rulesQueue = SubSeq(c, Len(c) - Len(rulesQueue) + 1, Len(c))
              /\ c[i].Type \in {"Added", "Modified"}
              /\ c[i].Rule = r}

(* C32: while the rules worker stores, replaces and deletes rules, every   *)
(* rule the Range of the alerts worker hands to checkRule is a rule that   *)
(* was passed whole to processAddedRule, never a mixture of an older and a *)
(* newer rule of the name, and the Range ends without a panic.             *)
RangeEvaluatesStoredRules ==
    /\ ranging.evaluated \subseteq Upserted
    /\ ~crashed

(* The Range ended after it loaded the newer rule "start", which was       *)
(* stored after the Range had started with the older one.                  *)
ReplacedRuleEvaluated ==
    /\ ~ranging.on
    /\ ranging.start["start"] = RuleStart
    /\ RuleStartAgain \in ranging.evaluated
    /\ RuleBatch \in ranging.evaluated

(* The rule of the configuration with the given name, or NoRule. *)
Configured(n) ==
    IF \E i \in DOMAIN config : config[i].Name = n
    THEN config[CHOOSE i \in DOMAIN config : config[i].Name = n]
    ELSE NoRule

(* C38: once the rules queue is drained the cache holds exactly the rules  *)
(* of the configuration loaded last, each with the content it has there,   *)
(* also when the files changed before the changes of the load before were  *)
(* processed.                                                              *)
DrainedCacheIsLatestConfiguration ==
    rulesQueue = <<>> => \A n \in RuleNames : rulesCache[n] = Configured(n)

(* C34: an item of the rules queue that is not a rule change, or of the     *)
(* alerts queue that is not an alert, is discarded: the queue is told to   *)
(* forget it, it is not handed to processRuleChange or processAlert, and   *)
(* the worker goes on with the next item.                                  *)
StrayItemIsDiscarded ==
    /\ ~IsRuleChange(lastChange.change) =>
          /\ lastChange.calls = <<"Get", "Done", "Forget">>
          /\ ~crashed
    /\ ~IsAlert(lastPick.alert) =>
          /\ lastPick.calls = <<"Get", "Done", "Forget">>
          /\ ~crashed

----------------------------------------------------------------------------
(* Properties of the expander, checked under SpecTemplate.                 *)

WellFormed(text) == \A i \in 1..Len(text) : text[i] \notin BadTemplateTokens

Processed == tplOut # NotProcessed

(* The strings that are fields of the struct. *)
StringFields(struct) == {i \in 1..Len(struct.fields) : struct.fields[i].kind = "string"}

(* C25: expansion of a struct leaves the fields that can not be set as     *)
(* they are and does not fail because of them, and replaces the string     *)
(* fields that can be set by their rendered text.                          *)
StructFieldsAreRendered ==
    (/\ Processed
     /\ tplIn.kind = "struct"
     /\ \A i \in StringFields(tplIn) : WellFormed(tplIn.fields[i].text))
    => /\ ~tplOut.panic
       /\ ~tplOut.err
       /\ \A i \in StringFields(tplIn) :
             tplOut.object.fields[i].text =
                IF tplIn.fields[i].settable
                THEN Execute(tplIn.fields[i].text, tplData)
                ELSE tplIn.fields[i].text

(* The strings of the object whose template is malformed have the text     *)
(* they had.                                                               *)
RECURSIVE Malformed(_)
Malformed(v) ==
    CASE v.kind = "string" -> ~WellFormed(v.text)
      [] v.kind = "struct" -> \E i \in 1..Len(v.fields) : Malformed(v.fields[i])
      [] v.kind = "map" -> \E k \in DOMAIN v.items : Malformed(v.items[k])
      [] OTHER -> FALSE

RECURSIVE MalformedKept(_, _)
MalformedKept(in, out) ==
    CASE in.kind = "string" -> WellFormed(in.text) \/ out = in
      [] in.kind = "struct" ->
            \A i \in 1..Len(in.fields) : MalformedKept(in.fields[i], out.fields[i])
      [] in.kind = "map" ->
            \A k \in DOMAIN in.items : MalformedKept(in.items[k], out.items[k])
      [] OTHER -> TRUE

(* The well formed strings of the object that can be set, or are values of *)
(* a map, hold their rendered text.                                        *)
RECURSIVE OthersRendered(_, _, _)
OthersRendered(in, out, data) ==
    CASE in.kind = "string" ->
            (WellFormed(in.text) /\ in.settable) => out.text = Execute(in.text, data)
      [] in.kind = "struct" ->
            \A i \in 1..Len(in.fields) :
               OthersRendered(in.fields[i], out.fields[i], data)
      [] in.kind = "map" ->
            \A k \in DOMAIN in.items :
               WellFormed(in.items[k].text)
                  => out.items[k].text = Execute(in.items[k].text, data)
      [] OTHER -> TRUE

(* C26: a malformed template in an action, a syntax error or a reference   *)
(* to a variable that is not defined, aborts the expansion and the error   *)
(* is returned to the caller of Process.                                   *)
MalformedTemplateIsReturned ==
    (/\ Processed
     /\ tplOut.revision = "autoheal"
     /\ Malformed(tplIn))
    => tplOut.err

(* C26, as cmd/autoheal has it: Process returns no error for a malformed   *)
(* template and leaves the string that holds it as it was, and the other   *)
(* values of a map are still rendered.                                     *)
MalformedTemplateIsLeftAlone ==
    (/\ Processed
     /\ tplOut.revision = "autoheal"
     /\ Malformed(tplIn))
    => /\ ~tplOut.err
       /\ ~tplOut.panic
       /\ MalformedKept(tplIn, tplOut.object)
       /\ tplIn.kind = "map" => OthersRendered(tplIn, tplOut.object, tplData)

(* A map was expanded that holds a template of a variable that is not      *)
(* defined and a well formed one, which was rendered.                      *)
MalformedNextToRendered ==
    /\ Processed
    /\ tplOut.revision = "autoheal"
    /\ tplIn.kind = "map"
    /\ DOMAIN tplIn.items = MapKeys
    /\ tplIn.items["a"].text = TextUndefined
    /\ tplOut.object.items["a"].text = TextUndefined
    /\ tplIn.items["b"].text = TextTemplate
    /\ tplOut.object.items["b"].text = Execute(TextTemplate, tplData)
    /\ ~tplOut.err

(* A string of the object refers to a variable that is not defined. *)
RECURSIVE RefersToUndefined(_)
RefersToUndefined(v) ==
    CASE v.kind = "string" -> \E i \in 1..Len(v.text) : v.text[i] = "{{$foo}}"
      [] v.kind = "struct" ->
            \E i \in 1..Len(v.fields) : RefersToUndefined(v.fields[i])
      [] v.kind = "map" -> \E k \in DOMAIN v.items : RefersToUndefined(v.items[k])
      [] OTHER -> FALSE

(* C27: Process of a string, on its own, as a field of a struct or as a    *)
(* value of a map, whose text refers to variables that are not defined     *)
(* returns no error and leaves the string as it was, and the other strings *)
(* of the object are still rendered.                                       *)
UndefinedVariableSparesOtherStrings ==
    (/\ Processed
     /\ tplOut.revision = "autoheal"
     /\ RefersToUndefined(tplIn))
    => /\ ~tplOut.err
       /\ ~tplOut.panic
       /\ MalformedKept(tplIn, tplOut.object)
       /\ OthersRendered(tplIn, tplOut.object, tplData)

----------------------------------------------------------------------------
(* Properties of the memory, checked under SpecMemory and, for concurrent  *)
(* callers, under SpecCallers.                                             *)

(* C29: after any sequence of Add, Has, Len and Clean calls the cells of   *)
(* the memory are in non-decreasing order of their stamps, oldest first,   *)
(* also after an Add that refreshes an item that is not the newest one.    *)
CellsAreSortedByStamp ==
    \A i, j \in 1..Len(cells) : i < j => cells[i].stamp <= cells[j].stamp

(* C36: Has, Len and Clean complete normally in every reachable state of   *)
(* the memory: the purge reads no cell outside the current cell list and   *)
(* does not panic, however many cells are expired at the same time.        *)
PurgeCompletesNormally ==
    lastOp.op \in {"Has", "Len", "Clean"} => ~lastOp.panic /\ ~crashed

(* C30: the memory never holds two cells with deeply equal items, after    *)
(* any sequence and any interleaving of Add, Has, Len and Clean calls made *)
(* by concurrent callers, each of which runs with the mutex held.          *)
NoTwoCellsHoldEqualItems ==
    \A i, j \in 1..Len(cells) :
       i # j => ~DeepEqualValue(cells[i].item.val, cells[j].item.val)

(* An item was added while a cell held a separately constructed item of    *)
(* the same value, next to a cell of another value.                        *)
EqualItemAddedTwice ==
    /\ lastOp.op = "Add"
    /\ Len(cells) >= 2
    /\ \E i \in 1..Len(cells) :
          /\ cells[i].item.ref # lastOp.arg.ref
          /\ DeepEqualValue(cells[i].item.val, lastOp.arg.val)
          /\ cells[i].stamp = now
          /\ \A j \in 1..Len(cells) :
                j # i => ~DeepEqualValue(cells[j].item.val, lastOp.arg.val)


====
